---- MODULE Spec2Model ----
(***************************************************************************)
(* A model of the tokenizer core of markdown-rs as far as it is exercised  *)
(* by src/util/edit_map.rs, src/construct/heading_atx.rs and               *)
(* src/content/flow.rs.                                                    *)
(*                                                                         *)
(* Conventions.                                                            *)
(*  - Indices into the event log (edit anchors, link indices, the          *)
(*    resolver's index) are 0-based as in the source; the event with       *)
(*    0-based index i is events[i + 1].                                    *)
(*  - Option<T> is a sequence of length 0 (None) or 1 (Some).              *)
(*  - A panic (assert!, unreachable!, unwrap on None, a slice index out of *)
(*    range, an arithmetic overflow with overflow checks on) is recorded   *)
(*    in a field "panic" holding the message; "" means no panic.  A        *)
(*    panicked value is passed through unchanged by every later call,      *)
(*    which models the unwinding.                                          *)
(*  - The tokenizer engine (tokenizer.rs), the whitespace, blank line and  *)
(*    paragraph constructs are not among the source files; they are        *)
(*    modelled from the specification's description of their contract.     *)
(***************************************************************************)
EXTENDS Integers, Sequences, FiniteSets, TLC

VARIABLES
    input,      \* the input units revealed to the tokenizer so far
    eof,        \* whether the input ends after the revealed units
    constructs, \* parse_state.constructs: which constructs are enabled
    tokenizer,  \* the Tokenizer (or, for the edit map alone, its events and map)
    phase,      \* "tokenize" | "resolve" | "done" | "edit"
    history     \* what was observed of the run so far (no part of the program)

vars == <<input, eof, constructs, tokenizer, phase, history>>

---------------------------------------------------------------------------
(* Bounds of the model *)

\* longest input, in units
MaxLen == 7
\* most units of an input that are not '#'
MaxText == 4
\* most tabs of an input
MaxTabs == 1
\* length of the event log handed to the edit map on its own
MaxLog == 3
\* number of add / add_before calls made on one edit map
MaxCalls == 2
\* longest input given to the title construct, in units
MaxTitleLen == 6

(* Program constants *)

\* crate::constant::TAB_SIZE
TAB_SIZE == 4
\* crate::constant::HEADING_ATX_OPENING_FENCE_SIZE_MAX
HEADING_ATX_OPENING_FENCE_SIZE_MAX == 6
\* usize::MAX + 1 on a 16-bit target; wrapping arithmetic is modulo this
UsizeModulus == 2 ^ 16
UsizeMax == UsizeModulus - 1

---------------------------------------------------------------------------
(* Events and links *)

None == <<>>
Some(x) == <<x>>
IsSome(o) == Len(o) = 1
Unwrap(o) == o[1]

Link(previous, next, content_type) ==
    [previous |-> previous, next |-> next, content_type |-> content_type]

Event(event_type, token_type, point, link) ==
    [event_type |-> event_type, token_type |-> token_type, point |-> point,
     link |-> link]

\* Vec::split_off(at) leaves events[0 .. at) in place and returns the rest
SplitOffKeep(events, at) == SubSeq(events, 1, at)
SplitOffTail(events, at) == SubSeq(events, at + 1, Len(events))

RECURSIVE Concat(_)
Concat(seqs) ==
    IF seqs = <<>> THEN <<>> ELSE Head(seqs) \o Concat(Tail(seqs))

Reverse(seq) == [i \in 1..Len(seq) |-> seq[Len(seq) + 1 - i]]

---------------------------------------------------------------------------
(* util/edit_map.rs *)

\* (mutant) the closure `map` breaking at an anchor equal to `before`
RECURSIVE shift_index_from_strict(_, _, _, _, _)
shift_index_from_strict(before, jumps, jump_index, remove, add) ==
    IF jump_index <= Len(jumps) /\ ~(jumps[jump_index][1] >= before)
    THEN shift_index_from_strict(before, jumps, jump_index + 1,
                                 jumps[jump_index][2], jumps[jump_index][3])
    ELSE before + add - remove

\* the closure `map` of shift_links: the last jump whose anchor is <= before
\* decides; the result is before + add - remove as a mathematical integer
\* (negative when the usize subtraction would overflow)
RECURSIVE shift_index_from(_, _, _, _, _)
shift_index_from(before, jumps, jump_index, remove, add) ==
    IF jump_index <= Len(jumps) /\ ~(jumps[jump_index][1] > before)
    THEN shift_index_from(before, jumps, jump_index + 1,
                          jumps[jump_index][2], jumps[jump_index][3])
    ELSE before + add - remove

shift_index(before, jumps) == shift_index_from(before, jumps, 1, 0, 0)

\* usize arithmetic of a release build: a negative result wraps
WrapUsize(n) == IF n < 0 THEN n + UsizeModulus ELSE n

shift_option(o, jumps) ==
    IF IsSome(o) THEN Some(WrapUsize(shift_index(Unwrap(o), jumps))) ELSE None

ShiftOverflows(o, jumps) == IsSome(o) /\ shift_index(Unwrap(o), jumps) < 0

\* shift_links: every link of `events` is rewritten.  With overflow checks
\* (a debug build) an overflowing subtraction panics.
shift_links(events, jumps, overflow_checks) ==
    [events |->
        [i \in 1..Len(events) |->
            IF IsSome(events[i].link)
            THEN [events[i] EXCEPT !.link =
                    Some([Unwrap(events[i].link) EXCEPT
                            !.previous = shift_option(@, jumps),
                            !.next = shift_option(@, jumps)])]
            ELSE events[i]],
     panic |->
        IF overflow_checks /\
           \E i \in 1..Len(events) :
               /\ IsSome(events[i].link)
               /\ \/ ShiftOverflows(Unwrap(events[i].link).previous, jumps)
                  \/ ShiftOverflows(Unwrap(events[i].link).next, jumps)
        THEN "attempt to subtract with overflow"
        ELSE ""]

\* EditMap::new
EditMap_new == [consumed |-> FALSE, map |-> <<>>, panic |-> ""]

\* sort_unstable_by on the anchors (add_impl keeps the anchors distinct, so
\* the order of the result does not depend on the sort being unstable)
RECURSIVE sort_insert(_, _)
sort_insert(sorted, entry) ==
    IF sorted = <<>> THEN <<entry>>
    ELSE IF Head(sorted).at <= entry.at
         THEN <<Head(sorted)>> \o sort_insert(Tail(sorted), entry)
         ELSE <<entry>> \o sorted

\* (mutant) the entries left in the order they were queued in
sort_by_at_omitted(map) == map

RECURSIVE sort_by_at(_)
sort_by_at(map) ==
    IF map = <<>> THEN <<>>
    ELSE sort_insert(sort_by_at(SubSeq(map, 1, Len(map) - 1)), map[Len(map)])

\* (mutant) the first loop of consume pushing each entry's own counts
RECURSIVE jumps_from_each(_, _, _, _)
jumps_from_each(map, index, add_acc, remove_acc) ==
    IF index > Len(map) THEN <<>>
    ELSE <<<<map[index].at, map[index].remove, Len(map[index].add)>>>>
            \o jumps_from_each(map, index + 1, add_acc, remove_acc)

\* the first loop of consume: (at, remove_acc, add_acc) per entry
RECURSIVE jumps_from(_, _, _, _)
jumps_from(map, index, add_acc, remove_acc) ==
    IF index > Len(map) THEN <<>>
    ELSE LET a == add_acc + Len(map[index].add)
             r == remove_acc + map[index].remove
         IN  <<<<map[index].at, r, a>>>> \o jumps_from(map, index + 1, a, r)

calculate_jumps(map) == jumps_from(map, 1, 0, 0)

\* the second loop of consume, from the highest anchor down; `index` is the
\* number of entries still to apply
RECURSIVE consume_walk(_, _, _, _, _, _)
consume_walk(map, index, events, vecs, jumps, overflow_checks) ==
    IF index = 0
    THEN [map |-> map, events |-> events, vecs |-> vecs, panic |-> ""]
    ELSE
        LET at == map[index].at
            remove == map[index].remove
        IN  IF at + remove > Len(events)
            THEN [map |-> map, events |-> events, vecs |-> vecs,
                  panic |-> "split_off: at out of bounds"]
            ELSE
                LET keep == shift_links(SplitOffTail(events, at + remove),
                                        jumps, overflow_checks)
                IN  IF keep.panic # ""
                    THEN [map |-> map,
                          events |-> SplitOffKeep(events, at + remove),
                          vecs |-> vecs, panic |-> keep.panic]
                    ELSE consume_walk(
                            [map EXCEPT ![index].add = <<>>],
                            index - 1,
                            SubSeq(events, 1, at),
                            vecs \o <<keep.events, map[index].add>>,
                            jumps, overflow_checks)

\* consume after its assert: the jumps, the walk, the reassembly
consume_apply(sorted, events, overflow_checks) ==
    LET jumps == calculate_jumps(sorted)
        walk == consume_walk(sorted, Len(sorted), events, <<>>, jumps,
                             overflow_checks)
        head == shift_links(walk.events, jumps, overflow_checks)
        done == [consumed |-> TRUE, map |-> walk.map, panic |-> ""]
    IN  IF walk.panic # ""
        THEN [edit_map |-> [done EXCEPT !.panic = walk.panic],
              events |-> walk.events]
        ELSE IF head.panic # ""
        THEN [edit_map |-> [done EXCEPT !.panic = head.panic],
              events |-> walk.events]
        ELSE [edit_map |-> done,
              events |-> Concat(Reverse(walk.vecs \o <<head.events>>))]

\* (mutant) consume without its assert
EditMap_consume_unchecked(edit_map, events, overflow_checks) ==
    consume_apply(sort_by_at(edit_map.map), events, overflow_checks)

\* EditMap::consume.  The result holds the edit map and the events after
\* the call; result.edit_map.panic tells whether the call panicked.
EditMap_consume(edit_map, events, overflow_checks) ==
    IF edit_map.panic # "" THEN [edit_map |-> edit_map, events |-> events]
    ELSE IF edit_map.consumed
    THEN [edit_map |-> [edit_map EXCEPT !.map = sort_by_at(edit_map.map),
                          !.panic = "cannot consume after consuming"],
          events |-> events]
    ELSE consume_apply(sort_by_at(edit_map.map), events, overflow_checks)

\* the index of the entry anchored at `at`, or 0
RECURSIVE find_at(_, _, _)
find_at(map, at, index) ==
    IF index > Len(map) THEN 0
    ELSE IF map[index].at = at THEN index
    ELSE find_at(map, at, index + 1)

\* (mutant) add_impl putting the events after the entry's whatever `before`
add_impl_always_after(edit_map, at, remove, add, before) ==
    IF edit_map.panic # "" THEN edit_map
    ELSE IF edit_map.consumed
    THEN [edit_map EXCEPT !.panic = "cannot add after consuming"]
    ELSE IF remove = 0 /\ add = <<>> THEN edit_map
    ELSE LET index == find_at(edit_map.map, at, 1)
         IN  IF index # 0
             THEN [edit_map EXCEPT
                     !.map[index].remove = @ + remove,
                     !.map[index].add = @ \o add]
             ELSE [edit_map EXCEPT !.map =
                     Append(@, [at |-> at, remove |-> remove, add |-> add])]

\* (mutant) add_impl without its early return for an empty edit
add_impl_no_early_return(edit_map, at, remove, add, before) ==
    IF edit_map.panic # "" THEN edit_map
    ELSE IF edit_map.consumed
    THEN [edit_map EXCEPT !.panic = "cannot add after consuming"]
    ELSE LET index == find_at(edit_map.map, at, 1)
         IN  IF index # 0
             THEN [edit_map EXCEPT
                     !.map[index].remove = @ + remove,
                     !.map[index].add = IF before THEN add \o @ ELSE @ \o add]
             ELSE [edit_map EXCEPT !.map =
                     Append(@, [at |-> at, remove |-> remove, add |-> add])]

add_impl(edit_map, at, remove, add, before) ==
    IF edit_map.panic # "" THEN edit_map
    ELSE IF edit_map.consumed
    THEN [edit_map EXCEPT !.panic = "cannot add after consuming"]
    ELSE IF remove = 0 /\ add = <<>> THEN edit_map
    ELSE LET index == find_at(edit_map.map, at, 1)
         IN  IF index # 0
             THEN [edit_map EXCEPT
                     !.map[index].remove = @ + remove,
                     !.map[index].add = IF before THEN add \o @ ELSE @ \o add]
             ELSE [edit_map EXCEPT !.map =
                     Append(@, [at |-> at, remove |-> remove, add |-> add])]

\* EditMap::add
EditMap_add(edit_map, index, remove, add) ==
    add_impl(edit_map, index, remove, add, FALSE)

\* EditMap::add_before
EditMap_add_before(edit_map, index, remove, add) ==
    add_impl(edit_map, index, remove, add, TRUE)

---------------------------------------------------------------------------
(* The tokenizer engine (tokenizer.rs), from its contract *)

\* the units of the model: '#', a space, any other character, a line ending
Alphabet == {"#", " ", "\t", "a", "\n"}
\* the units of whitespace within a line: Some('\t' | ' ')
Whitespace == {"\t", " "}
\* tokenizer.current at end of input (Option::None)
Eof == "None"
\* the byte 0 of tokenize_state.marker: no marker
Nul == "NUL"

\* Tokenizer::new.  `state` is the State to run next: a StateName, or the
\* terminal "Ok" / "Nok".  `point` is the 0-based offset of the current unit.
Tokenizer_new(start) ==
    [events |-> <<>>, point |-> 0, current |-> Eof, state |-> start,
     attempts |-> <<>>, size |-> 0,
     space_or_tab_size |-> 0, space_or_tab_min |-> 0, space_or_tab_max |-> 0,
     space_or_tab_content_type |-> None, space_or_tab_connect |-> FALSE,
     space_or_tab_eol_content_type |-> None,
     space_or_tab_eol_connect |-> FALSE, space_or_tab_eol_ok |-> FALSE,
     marker |-> Nul, connect |-> FALSE,
     token_1 |-> "Data", token_2 |-> "Data", token_3 |-> "Data",
     interrupt |-> FALSE, resolver_ids |-> <<>>, resolvers |-> <<>>,
     map |-> EditMap_new, panic |-> ""]

State_Next(t, name) == [t EXCEPT !.state = name]
State_Ok(t) == [t EXCEPT !.state = "Ok"]
State_Nok(t) == [t EXCEPT !.state = "Nok"]
Panic(t, message) == [t EXCEPT !.panic = message]

\* enter_with_content: push an Enter at the current position; a content
\* type gives the event an (unconnected) link
enter_with_content(t, token_type, content_type) ==
    [t EXCEPT !.events = Append(@,
        Event("Enter", token_type, t.point,
              IF IsSome(content_type)
              THEN Some(Link(None, None, Unwrap(content_type)))
              ELSE None))]

enter(t, token_type) == enter_with_content(t, token_type, None)

\* exit: push an Exit at the current position
exit(t, token_type) ==
    [t EXCEPT !.events = Append(@, Event("Exit", token_type, t.point, None))]

\* consume: move past the current unit
consume(t) == [t EXCEPT !.point = @ + 1]

\* attempt: snapshot the log length and the position, then run `name`
attempt(t, name, ok, nok) ==
    [t EXCEPT
        !.attempts = Append(@, [ok |-> ok, nok |-> nok,
                                events_len |-> Len(t.events),
                                point |-> t.point]),
        !.state = name]

\* the engine on a terminal state with an attempt open: pop it; on Nok
\* restore the snapshot; go on with the attempt's continuation
attempt_handle(t) ==
    LET a == t.attempts[Len(t.attempts)]
        popped == [t EXCEPT !.attempts = SubSeq(@, 1, Len(@) - 1)]
    IN  IF t.state = "Ok"
        THEN [popped EXCEPT !.state = a.ok]
        ELSE [popped EXCEPT !.state = a.nok,
                            !.events = SubSeq(@, 1, a.events_len),
                            !.point = a.point]

\* subtokenize::link_to: connect the linked Enter at `previous` (a span
\* closed right after it) with the linked Enter at `next`
link_to(t, previous, next) ==
    IF previous < 0
    THEN Panic(t, "attempt to subtract with overflow")
    ELSE IF \/ t.events[previous + 1].event_type # "Enter"
            \/ t.events[previous + 2].event_type # "Exit"
            \/ t.events[previous + 2].token_type
                # t.events[previous + 1].token_type
            \/ t.events[next + 1].event_type # "Enter"
    THEN Panic(t, "assertion failed")
    ELSE IF ~IsSome(t.events[previous + 1].link)
    THEN Panic(t, "expected link on previous")
    ELSE IF ~IsSome(t.events[next + 1].link)
    THEN Panic(t, "expected link on next")
    ELSE [t EXCEPT
            !.events[previous + 1].link =
                Some([Unwrap(@) EXCEPT !.next = Some(next)]),
            !.events[next + 1].link =
                Some([Unwrap(@) EXCEPT !.previous = Some(previous)])]

\* subtokenize::link: connect the Enter at `index` with the span before it
link(t, index) == link_to(t, index - 2, index)

\* register_resolver: once per name
register_resolver(t, id) ==
    IF \E i \in 1..Len(t.resolver_ids) : t.resolver_ids[i] = id
    THEN t
    ELSE [t EXCEPT !.resolver_ids = Append(@, id),
                   !.resolvers = Append(@, id)]

---------------------------------------------------------------------------
(* construct/partial_space_or_tab.rs, construct/blank_line.rs,
   construct/paragraph.rs and the other flow constructs, from their contract *)

\* space_or_tab_with_options: whitespace, with a content type and linked
\* to the span before it or not
space_or_tab_with_options(t, min, max, content_type, connect) ==
    [t EXCEPT !.space_or_tab_min = min, !.space_or_tab_max = max,
              !.space_or_tab_content_type = content_type,
              !.space_or_tab_connect = connect]

\* space_or_tab_min_max: between min and max units of whitespace
space_or_tab_min_max(t, min, max) ==
    space_or_tab_with_options(t, min, max, None, FALSE)

\* space_or_tab: one or more units of whitespace
space_or_tab(t) == space_or_tab_min_max(t, 1, UsizeMax)

space_or_tab_after(t) ==
    LET done == [t EXCEPT !.space_or_tab_size = 0, !.space_or_tab_min = 0,
                          !.space_or_tab_max = 0,
                          !.space_or_tab_content_type = None,
                          !.space_or_tab_connect = FALSE]
    IN  IF t.space_or_tab_size >= t.space_or_tab_min THEN State_Ok(done) ELSE State_Nok(done)

space_or_tab_inside(t) ==
    IF t.current \in Whitespace /\ t.space_or_tab_size < t.space_or_tab_max
    THEN State_Next([consume(t) EXCEPT !.space_or_tab_size = @ + 1],
              "SpaceOrTabInside")
    ELSE space_or_tab_after(exit(t, "SpaceOrTab"))

space_or_tab_start(t) ==
    IF t.current \in Whitespace /\ t.space_or_tab_max > 0
    THEN LET entered == enter_with_content(t, "SpaceOrTab",
                                           t.space_or_tab_content_type)
         IN  space_or_tab_inside(
                IF t.space_or_tab_connect
                THEN link(entered, Len(entered.events) - 1)
                ELSE IF IsSome(t.space_or_tab_content_type)
                THEN [entered EXCEPT !.space_or_tab_connect = TRUE]
                ELSE entered)
    ELSE space_or_tab_after(t)

\* space_or_tab_eol_with_options: whitespace, at most one line ending,
\* whitespace; the line ending and the whitespace get the content type and
\* are linked
space_or_tab_eol_with_options(t, content_type, connect) ==
    [t EXCEPT !.space_or_tab_eol_content_type = content_type,
              !.space_or_tab_eol_connect = connect]

space_or_tab_eol_start(t) ==
    attempt(
        space_or_tab_with_options(t, 1, UsizeMax,
                                  t.space_or_tab_eol_content_type,
                                  t.space_or_tab_eol_connect),
        "SpaceOrTabStart", "SpaceOrTabEolAfterFirst", "SpaceOrTabEolAtEol")

space_or_tab_eol_at_eol(t) ==
    IF t.current = "\n"
    THEN LET entered == enter_with_content(t, "LineEnding",
                                           t.space_or_tab_eol_content_type)
             linked ==
                IF t.space_or_tab_eol_connect
                THEN link(entered, Len(entered.events) - 1)
                ELSE IF IsSome(t.space_or_tab_eol_content_type)
                THEN [entered EXCEPT !.space_or_tab_eol_connect = TRUE]
                ELSE entered
         IN  State_Next(exit(consume(linked), "LineEnding"),
                        "SpaceOrTabEolAfterEol")
    ELSE LET done == [t EXCEPT !.space_or_tab_eol_content_type = None,
                               !.space_or_tab_eol_connect = FALSE,
                               !.space_or_tab_eol_ok = FALSE]
         IN  IF t.space_or_tab_eol_ok THEN State_Ok(done) ELSE State_Nok(done)

space_or_tab_eol_after_first(t) ==
    space_or_tab_eol_at_eol(
        [t EXCEPT !.space_or_tab_eol_ok = TRUE,
                  !.space_or_tab_eol_connect =
                    IF IsSome(t.space_or_tab_eol_content_type) THEN TRUE ELSE @])

space_or_tab_eol_after_eol(t) ==
    attempt(
        space_or_tab_with_options(t, 1, UsizeMax,
                                  t.space_or_tab_eol_content_type,
                                  t.space_or_tab_eol_connect),
        "SpaceOrTabStart", "SpaceOrTabEolAfterMore", "SpaceOrTabEolAfterMore")

\* after the line ending and the whitespace: a blank line is not allowed
space_or_tab_eol_after_more(t) ==
    LET done == [t EXCEPT !.space_or_tab_eol_content_type = None,
                          !.space_or_tab_eol_connect = FALSE,
                          !.space_or_tab_eol_ok = FALSE]
    IN  IF t.current \in {Eof, "\n"} THEN State_Nok(done) ELSE State_Ok(done)

\* blank line: optional whitespace, then a line ending or the end
blank_line_start(t) ==
    attempt(space_or_tab(t), "SpaceOrTabStart", "BlankLineAfter",
            "BlankLineAfter")

blank_line_after(t) ==
    IF t.current \in {Eof, "\n"} THEN State_Ok(t) ELSE State_Nok(t)

\* paragraph: everything up to the line ending or the end.  (The paragraph
\* construct's own resolver is outside the modelled sources and is left out:
\* the only edits queued in this model are the heading resolver's.)
paragraph_inside(t) ==
    IF t.current \in {Eof, "\n"}
    THEN State_Ok([exit(exit(t, "Data"), "Paragraph") EXCEPT !.interrupt = TRUE])
    ELSE State_Next(consume(t), "ParagraphInside")

paragraph_start(t) ==
    IF t.current \in {Eof, "\n"}
    THEN Panic(t, "unreachable")
    ELSE paragraph_inside(
            enter_with_content(enter(t, "Paragraph"), "Data", Some("Text")))

\* code (indented), code (fenced), HTML (flow), heading (setext), thematic
\* break, definition: none can open on a line made of the model's units
\* (code (indented) is disabled in the modelled configuration)
other_construct_start(t) == State_Nok(t)

---------------------------------------------------------------------------
(* construct/heading_atx.rs *)

RECURSIVE heading_atx_at_break(_)

\* data: in text
heading_atx_data(t) ==
    IF t.current \in {Eof, "\n"} \cup Whitespace
    THEN heading_atx_at_break(exit(t, "Data"))
    ELSE State_Next(consume(t), "HeadingAtxData")

\* sequence_further: in a further sequence (after whitespace)
heading_atx_sequence_further(t) ==
    IF t.current = "#"
    THEN State_Next(consume(t), "HeadingAtxSequenceFurther")
    ELSE heading_atx_at_break(exit(t, "HeadingAtxSequence"))

\* (mutant) at_break pushing the resolver whether or not it is registered
heading_atx_at_break_pushing(t) ==
    IF t.current \in {Eof, "\n"}
    THEN State_Ok([exit(t, "HeadingAtx") EXCEPT
                    !.resolvers = Append(@, "heading_atx"),
                    !.interrupt = FALSE])
    ELSE IF t.current \in Whitespace
    THEN attempt(space_or_tab(t), "SpaceOrTabStart", "HeadingAtxAtBreak", "Nok")
    ELSE IF t.current = "#"
    THEN heading_atx_sequence_further(enter(t, "HeadingAtxSequence"))
    ELSE heading_atx_data(enter_with_content(t, "Data", Some("Text")))

\* (mutant) at_break ending the heading at whitespace as well
heading_atx_at_break_early(t) ==
    IF t.current \in {Eof, "\n"} \cup Whitespace
    THEN State_Ok([register_resolver(exit(t, "HeadingAtx"), "heading_atx")
                    EXCEPT !.interrupt = FALSE])
    ELSE IF t.current = "#"
    THEN heading_atx_sequence_further(enter(t, "HeadingAtxSequence"))
    ELSE heading_atx_data(enter_with_content(t, "Data", Some("Text")))

\* at_break: after something but before something else
heading_atx_at_break(t) ==
    IF t.current \in {Eof, "\n"}
    THEN State_Ok([register_resolver(exit(t, "HeadingAtx"), "heading_atx")
                    EXCEPT !.interrupt = FALSE])
    ELSE IF t.current \in Whitespace
    THEN attempt(space_or_tab(t), "SpaceOrTabStart", "HeadingAtxAtBreak", "Nok")
    ELSE IF t.current = "#"
    THEN heading_atx_sequence_further(enter(t, "HeadingAtxSequence"))
    ELSE heading_atx_data(enter_with_content(t, "Data", Some("Text")))

\* (mutant) sequence_open whose whitespace attempt goes on to the next flow
\* construct on failure instead of returning Nok
heading_atx_sequence_open_skipping(t) ==
    IF t.current \in {Eof, "\n"} /\ t.size > 0
    THEN heading_atx_at_break(
            exit([t EXCEPT !.size = 0], "HeadingAtxSequence"))
    ELSE IF t.current = "#" /\ t.size < HEADING_ATX_OPENING_FENCE_SIZE_MAX
    THEN State_Next(consume([t EXCEPT !.size = @ + 1]),
                    "HeadingAtxSequenceOpen")
    ELSE IF t.size > 0
    THEN attempt(space_or_tab(exit([t EXCEPT !.size = 0], "HeadingAtxSequence")),
                 "SpaceOrTabStart", "HeadingAtxAtBreak",
                 "FlowBeforeHeadingSetext")
    ELSE State_Nok([t EXCEPT !.size = 0])

\* (mutant) sequence_open taking one '#' more than the maximum
heading_atx_sequence_open_seven(t) ==
    IF t.current \in {Eof, "\n"} /\ t.size > 0
    THEN heading_atx_at_break(
            exit([t EXCEPT !.size = 0], "HeadingAtxSequence"))
    ELSE IF t.current = "#" /\ t.size <= HEADING_ATX_OPENING_FENCE_SIZE_MAX
    THEN State_Next(consume([t EXCEPT !.size = @ + 1]),
                    "HeadingAtxSequenceOpen")
    ELSE IF t.size > 0
    THEN attempt(space_or_tab(exit([t EXCEPT !.size = 0], "HeadingAtxSequence")),
                 "SpaceOrTabStart", "HeadingAtxAtBreak", "Nok")
    ELSE State_Nok([t EXCEPT !.size = 0])

\* sequence_open: in the opening sequence
heading_atx_sequence_open(t) ==
    IF t.current \in {Eof, "\n"} /\ t.size > 0
    THEN heading_atx_at_break(
            exit([t EXCEPT !.size = 0], "HeadingAtxSequence"))
    ELSE IF t.current = "#" /\ t.size < HEADING_ATX_OPENING_FENCE_SIZE_MAX
    THEN State_Next(consume([t EXCEPT !.size = @ + 1]),
                    "HeadingAtxSequenceOpen")
    ELSE IF t.size > 0
    THEN attempt(space_or_tab(exit([t EXCEPT !.size = 0], "HeadingAtxSequence")),
                 "SpaceOrTabStart", "HeadingAtxAtBreak", "Nok")
    ELSE State_Nok([t EXCEPT !.size = 0])

\* (mutant) before taking back, on failure, the Enter of the heading and a
\* whitespace span before returning Nok
heading_atx_before_unwinding(t) ==
    IF t.current = "#"
    THEN heading_atx_sequence_open(enter(t, "HeadingAtxSequence"))
    ELSE State_Nok([t EXCEPT !.events = SubSeq(@, 1, Len(@) - 3)])

\* before: start of a heading (atx), after whitespace
heading_atx_before(t) ==
    IF t.current = "#"
    THEN heading_atx_sequence_open(enter(t, "HeadingAtxSequence"))
    ELSE State_Nok(t)

\* (mutant) start not looking at the configuration
heading_atx_start_always(t) ==
    attempt(
        space_or_tab_min_max(
            enter(t, "HeadingAtx"), 0,
            IF constructs.code_indented THEN TAB_SIZE - 1 ELSE UsizeMax),
        "SpaceOrTabStart", "HeadingAtxBefore", "Nok")

\* start: start of a heading (atx)
heading_atx_start(t) ==
    IF constructs.heading_atx
    THEN attempt(
            space_or_tab_min_max(
                enter(t, "HeadingAtx"), 0,
                IF constructs.code_indented THEN TAB_SIZE - 1 ELSE UsizeMax),
            "SpaceOrTabStart", "HeadingAtxBefore", "Nok")
    ELSE State_Nok(t)

\* (mutant) the edits of resolve with the Exit queued at `end`
heading_atx_resolve_edits_early_exit(t, start, end) ==
    LET m1 == EditMap_add(t.map, start, 0,
                <<Event("Enter", "HeadingAtxText", t.events[start + 1].point,
                        None)>>)
        m2 == EditMap_add(m1, start + 1, end - start - 1, <<>>)
        m3 == EditMap_add(m2, end, 0,
                <<Event("Exit", "HeadingAtxText", t.events[end + 1].point,
                        None)>>)
    IN  [t EXCEPT !.map = m3]

\* (mutant) the edits of resolve made on the log at once
heading_atx_resolve_edits_in_place(t, start, end) ==
    [t EXCEPT !.events =
        SubSeq(@, 1, start)
        \o <<Event("Enter", "HeadingAtxText", t.events[start + 1].point, None),
             t.events[start + 1], t.events[end + 1],
             Event("Exit", "HeadingAtxText", t.events[end + 1].point, None)>>
        \o SubSeq(@, end + 2, Len(@))]

\* (mutant) the edits of resolve keeping the events between the two
heading_atx_resolve_edits_keeping(t, start, end) ==
    LET m1 == EditMap_add(t.map, start, 0,
                <<Event("Enter", "HeadingAtxText", t.events[start + 1].point,
                        None)>>)
        m3 == EditMap_add(m1, end + 1, 0,
                <<Event("Exit", "HeadingAtxText", t.events[end + 1].point,
                        None)>>)
    IN  [t EXCEPT !.map = m3]

\* the three edits resolve queues for a heading with data from `start` to `end`
heading_atx_resolve_edits(t, start, end) ==
    LET m1 == EditMap_add(t.map, start, 0,
                <<Event("Enter", "HeadingAtxText", t.events[start + 1].point,
                        None)>>)
        m2 == EditMap_add(m1, start + 1, end - start - 1, <<>>)
        m3 == EditMap_add(m2, end + 1, 0,
                <<Event("Exit", "HeadingAtxText", t.events[end + 1].point,
                        None)>>)
    IN  [t EXCEPT !.map = m3]

\* (mutant) the loop of resolve keeping data_start and data_end of a heading
\* when it leaves the heading
RECURSIVE heading_atx_resolve_from_leaking(_, _, _, _, _)
heading_atx_resolve_from_leaking(t, index, heading_inside, data_start, data_end) ==
    IF ~(index < Len(t.events)) \/ t.panic # "" THEN t
    ELSE
    LET event == t.events[index + 1]
    IN  IF event.token_type = "HeadingAtx"
        THEN IF event.event_type = "Enter"
             THEN heading_atx_resolve_from_leaking(t, index + 1, TRUE,
                                                   data_start, data_end)
             ELSE heading_atx_resolve_from_leaking(
                    IF IsSome(data_start)
                    THEN IF IsSome(data_end)
                         THEN heading_atx_resolve_edits(t, Unwrap(data_start),
                                                        Unwrap(data_end))
                         ELSE Panic(t, "called Option::unwrap() on a None value")
                    ELSE t,
                    index + 1, FALSE, data_start, data_end)
        ELSE IF heading_inside /\ event.token_type = "Data"
        THEN IF event.event_type = "Enter"
             THEN heading_atx_resolve_from_leaking(
                    t, index + 1, heading_inside,
                    IF data_start = None THEN Some(index) ELSE data_start,
                    data_end)
             ELSE heading_atx_resolve_from_leaking(t, index + 1, heading_inside,
                                                   data_start, Some(index))
        ELSE heading_atx_resolve_from_leaking(t, index + 1, heading_inside,
                                              data_start, data_end)

\* the loop of resolve, from `index` on
RECURSIVE heading_atx_resolve_from(_, _, _, _, _)
heading_atx_resolve_from(t, index, heading_inside, data_start, data_end) ==
    IF ~(index < Len(t.events)) \/ t.panic # "" THEN t
    ELSE
    LET event == t.events[index + 1]
    IN  IF event.token_type = "HeadingAtx"
        THEN IF event.event_type = "Enter"
             THEN heading_atx_resolve_from(t, index + 1, TRUE, data_start,
                                           data_end)
             ELSE heading_atx_resolve_from(
                    IF IsSome(data_start)
                    THEN IF IsSome(data_end)
                         THEN heading_atx_resolve_edits(t, Unwrap(data_start),
                                                        Unwrap(data_end))
                         ELSE Panic(t, "called Option::unwrap() on a None value")
                    ELSE t,
                    index + 1, FALSE, None, None)
        ELSE IF heading_inside /\ event.token_type = "Data"
        THEN IF event.event_type = "Enter"
             THEN heading_atx_resolve_from(
                    t, index + 1, heading_inside,
                    IF data_start = None THEN Some(index) ELSE data_start,
                    data_end)
             ELSE heading_atx_resolve_from(t, index + 1, heading_inside,
                                           data_start, Some(index))
        ELSE heading_atx_resolve_from(t, index + 1, heading_inside, data_start,
                                      data_end)

\* resolve: resolve heading (atx)
heading_atx_resolve(t) == heading_atx_resolve_from(t, 0, FALSE, None, None)

---------------------------------------------------------------------------
(* construct/partial_title.rs *)

\* the bytes that open and that close a title
TitleOpeners == {"\"", "'", "("}
TitleClosers == {"\"", "'", ")"}

RECURSIVE title_at_break(_)

\* (mutant) begin closing the title at any closing marker
title_begin_any(t) ==
    IF t.current \in TitleClosers
    THEN State_Ok(
            [exit(exit(consume(enter(t, t.token_2)), t.token_2), t.token_1)
                EXCEPT !.marker = Nul, !.connect = FALSE])
    ELSE title_at_break(enter(t, t.token_3))

\* begin: after the opening marker; also at the closing marker
title_begin(t) ==
    IF t.current \in TitleClosers /\ t.current = t.marker
    THEN State_Ok(
            [exit(exit(consume(enter(t, t.token_2)), t.token_2), t.token_1)
                EXCEPT !.marker = Nul, !.connect = FALSE])
    ELSE title_at_break(enter(t, t.token_3))

\* inside: in title text
title_inside(t) ==
    IF t.current \in {Eof, "\n"}
    THEN title_at_break(exit(t, "Data"))
    ELSE IF t.current \in TitleClosers /\ t.current = t.marker
    THEN title_at_break(exit(t, "Data"))
    ELSE State_Next(consume(t),
                    IF t.current = "\\" THEN "TitleEscape" ELSE "TitleInside")

\* (mutant) at_break entering every Data span as the start of a run
title_at_break_unlinked(t) ==
    IF t.current = Eof
    THEN State_Nok([t EXCEPT !.marker = Nul, !.connect = FALSE])
    ELSE IF t.current = "\n"
    THEN attempt(
            space_or_tab_eol_with_options(t, Some("String"), t.connect),
            "SpaceOrTabEolStart", "TitleAfterEol", "TitleAtBlankLine")
    ELSE IF t.current \in TitleClosers /\ t.current = t.marker
    THEN title_begin(exit(t, t.token_3))
    ELSE title_inside(
            [enter_with_content(t, "Data", Some("String"))
                EXCEPT !.connect = TRUE])

\* at_break: at something, before something else
title_at_break(t) ==
    IF t.current = Eof
    THEN State_Nok([t EXCEPT !.marker = Nul, !.connect = FALSE])
    ELSE IF t.current = "\n"
    THEN attempt(
            space_or_tab_eol_with_options(t, Some("String"), t.connect),
            "SpaceOrTabEolStart", "TitleAfterEol", "TitleAtBlankLine")
    ELSE IF t.current \in TitleClosers /\ t.current = t.marker
    THEN title_begin(exit(t, t.token_3))
    ELSE LET entered == enter_with_content(t, "Data", Some("String"))
         IN  title_inside(
                IF t.connect
                THEN link(entered, Len(entered.events) - 1)
                ELSE [entered EXCEPT !.connect = TRUE])

\* start: before a title
title_start(t) ==
    IF t.current \in TitleOpeners
    THEN State_Next(
            exit(consume(enter(enter(
                    [t EXCEPT !.marker =
                        IF t.current = "(" THEN ")" ELSE t.current],
                    t.token_1), t.token_2)), t.token_2),
            "TitleBegin")
    ELSE State_Nok(t)

\* after_eol: after a line ending and the whitespace after it
title_after_eol(t) == title_at_break([t EXCEPT !.connect = TRUE])

\* (mutant) at_blank_line returning Nok with the scratch fields as they are
title_at_blank_line_keeping(t) == State_Nok(t)

\* at_blank_line: at a blank line, or at the end, after a line ending
title_at_blank_line(t) ==
    State_Nok([t EXCEPT !.marker = Nul, !.connect = FALSE])

\* escape: after a backslash, in title text
title_escape(t) ==
    IF t.current \in TitleClosers
    THEN State_Next(consume(t), "TitleInside")
    ELSE title_inside(t)

\* the caller of the title construct (definition.rs): it names the three
\* tokens and attempts the title
definition_title_before_marker(t) ==
    attempt([t EXCEPT !.token_1 = "DefinitionTitle",
                      !.token_2 = "DefinitionTitleMarker",
                      !.token_3 = "DefinitionTitleString"],
            "TitleStart", "Ok", "Nok")

---------------------------------------------------------------------------
(* content/flow.rs *)

\* start: before flow
flow_start(t) ==
    IF t.current = Eof
    THEN State_Ok(t)
    ELSE attempt(t, "BlankLineStart", "FlowBlankLineAfter", "FlowBefore")

\* before: before flow (initial)
flow_before(t) ==
    attempt(t, "CodeIndentedStart", "FlowAfter", "FlowBeforeCodeFenced")

flow_before_code_fenced(t) ==
    attempt(t, "CodeFencedStart", "FlowAfter", "FlowBeforeHtml")

flow_before_html(t) ==
    attempt(t, "HtmlFlowStart", "FlowAfter", "FlowBeforeHeadingAtx")

\* (mutant) before_heading_atx passing over heading (setext) on failure
flow_before_heading_atx_passing(t) ==
    attempt(t, "HeadingAtxStart", "FlowAfter", "FlowBeforeThematicBreak")

flow_before_heading_atx(t) ==
    attempt(t, "HeadingAtxStart", "FlowAfter", "FlowBeforeHeadingSetext")

flow_before_heading_setext(t) ==
    attempt(t, "HeadingSetextStart", "FlowAfter", "FlowBeforeThematicBreak")

flow_before_thematic_break(t) ==
    attempt(t, "ThematicBreakStart", "FlowAfter", "FlowBeforeDefinition")

\* (mutant) before_definition as the last of the chain
flow_before_definition_last(t) ==
    attempt(t, "DefinitionStart", "FlowAfter", "Nok")

flow_before_definition(t) ==
    attempt(t, "DefinitionStart", "FlowAfter", "FlowBeforeParagraph")

\* (mutant) blank_line_after going on without taking the line ending
flow_blank_line_after_not_consuming(t) ==
    IF t.current = Eof THEN State_Ok(t)
    ELSE IF t.current = "\n"
    THEN State_Next([t EXCEPT !.interrupt = FALSE], "FlowStart")
    ELSE Panic(t, "internal error: entered unreachable code: expected eol/eof")

\* blank_line_after: after a blank line
flow_blank_line_after(t) ==
    IF t.current = Eof THEN State_Ok(t)
    ELSE IF t.current = "\n"
    THEN State_Next(
            [exit(consume(enter(t, "BlankLineEnding")), "BlankLineEnding")
                EXCEPT !.interrupt = FALSE],
            "FlowStart")
    ELSE Panic(t, "internal error: entered unreachable code: expected eol/eof")

\* after: after something
flow_after(t) ==
    IF t.current = Eof THEN State_Ok(t)
    ELSE IF t.current = "\n"
    THEN State_Next(exit(consume(enter(t, "LineEnding")), "LineEnding"),
                    "FlowStart")
    ELSE Panic(t, "internal error: entered unreachable code: expected eol/eof")

\* before_paragraph: before a paragraph
flow_before_paragraph(t) ==
    attempt(t, "ParagraphStart", "FlowAfter", "Nok")

---------------------------------------------------------------------------
(* The run of one flow parse: the engine's loop, then the resolvers, then
   the edit map *)

\* the state function of each StateName
Call(name, t) ==
    CASE name = "FlowStart" -> flow_start(t)
      [] name = "FlowBefore" -> flow_before(t)
      [] name = "FlowBeforeCodeFenced" -> flow_before_code_fenced(t)
      [] name = "FlowBeforeHtml" -> flow_before_html(t)
      [] name = "FlowBeforeHeadingAtx" -> flow_before_heading_atx(t)
      [] name = "FlowBeforeHeadingSetext" -> flow_before_heading_setext(t)
      [] name = "FlowBeforeThematicBreak" -> flow_before_thematic_break(t)
      [] name = "FlowBeforeDefinition" -> flow_before_definition(t)
      [] name = "FlowBeforeParagraph" -> flow_before_paragraph(t)
      [] name = "FlowBlankLineAfter" -> flow_blank_line_after(t)
      [] name = "FlowAfter" -> flow_after(t)
      [] name = "HeadingAtxStart" -> heading_atx_start(t)
      [] name = "HeadingAtxBefore" -> heading_atx_before(t)
      [] name = "HeadingAtxSequenceOpen" -> heading_atx_sequence_open(t)
      [] name = "HeadingAtxAtBreak" -> heading_atx_at_break(t)
      [] name = "HeadingAtxSequenceFurther" -> heading_atx_sequence_further(t)
      [] name = "HeadingAtxData" -> heading_atx_data(t)
      [] name = "SpaceOrTabStart" -> space_or_tab_start(t)
      [] name = "SpaceOrTabInside" -> space_or_tab_inside(t)
      [] name = "BlankLineStart" -> blank_line_start(t)
      [] name = "BlankLineAfter" -> blank_line_after(t)
      [] name = "ParagraphStart" -> paragraph_start(t)
      [] name = "ParagraphInside" -> paragraph_inside(t)
      [] name = "SpaceOrTabEolStart" -> space_or_tab_eol_start(t)
      [] name = "SpaceOrTabEolAfterFirst" -> space_or_tab_eol_after_first(t)
      [] name = "SpaceOrTabEolAtEol" -> space_or_tab_eol_at_eol(t)
      [] name = "SpaceOrTabEolAfterEol" -> space_or_tab_eol_after_eol(t)
      [] name = "SpaceOrTabEolAfterMore" -> space_or_tab_eol_after_more(t)
      [] name = "DefinitionTitleBeforeMarker" ->
            definition_title_before_marker(t)
      [] name = "TitleStart" -> title_start(t)
      [] name = "TitleBegin" -> title_begin(t)
      [] name = "TitleAtBreak" -> title_at_break(t)
      [] name = "TitleAfterEol" -> title_after_eol(t)
      [] name = "TitleAtBlankLine" -> title_at_blank_line(t)
      [] name = "TitleInside" -> title_inside(t)
      [] name = "TitleEscape" -> title_escape(t)
      [] OTHER -> other_construct_start(t)

Terminal == {"Ok", "Nok"}

Panicked == tokenizer.panic # "" \/ tokenizer.map.panic # ""

\* the current unit is known: it was revealed, or the input has ended
CurrentKnown == tokenizer.point < Len(input) \/ eof

CurrentUnit ==
    IF tokenizer.point < Len(input) THEN input[tokenizer.point + 1] ELSE Eof

\* the number of units of `units` that are not '#'
TextUnits(units) == Cardinality({i \in 1..Len(units) : units[i] # "#"})

\* the states of the flow chain that attempt a construct
FlowChain ==
    {"FlowStart", "FlowBefore", "FlowBeforeCodeFenced", "FlowBeforeHtml",
     "FlowBeforeHeadingAtx", "FlowBeforeHeadingSetext",
     "FlowBeforeThematicBreak", "FlowBeforeDefinition", "FlowBeforeParagraph"}

\* the construct a state belongs to
ConstructOf(name) ==
    CASE name \in FlowChain \cup {"FlowAfter", "FlowBlankLineAfter"} -> "flow"
      [] name \in {"HeadingAtxStart", "HeadingAtxBefore",
                   "HeadingAtxSequenceOpen", "HeadingAtxAtBreak",
                   "HeadingAtxSequenceFurther", "HeadingAtxData"} ->
            "heading_atx"
      [] name \in {"BlankLineStart", "BlankLineAfter"} -> "blank_line"
      [] name \in {"ParagraphStart", "ParagraphInside"} -> "paragraph"
      [] name \in {"SpaceOrTabStart", "SpaceOrTabInside"} -> "space_or_tab"
      [] name \in {"SpaceOrTabEolStart", "SpaceOrTabEolAfterFirst",
                   "SpaceOrTabEolAtEol", "SpaceOrTabEolAfterEol",
                   "SpaceOrTabEolAfterMore"} -> "space_or_tab_eol"
      [] name \in {"TitleStart", "TitleBegin", "TitleAtBreak", "TitleAfterEol",
                   "TitleAtBlankLine", "TitleInside", "TitleEscape"} -> "title"
      [] OTHER -> name

\* `turns`: the number of turns the engine's loop took; `tried`: the
\* constructs the flow chain attempted since it was last at
\* FlowStart, each with the position of the attempt and its outcome;
\* `attempted`: every attempt made so far, as the construct attempted, the
\* position and the construct that made the attempt; `repeated`: those made
\* once more
History_new ==
    [heading_attempt |-> None, tokenized |-> <<>>, resolver_runs |-> 0,
     consume_runs |-> 0, calls |-> 0, call |-> None, tried |-> <<>>,
     attempted |-> {}, repeated |-> {}, turns |-> 0]

\* what is observed of the call of `name` that took `before` to `after`
Observed(name, before, after) ==
    LET h0 == [history EXCEPT !.turns = @ + 1]
        h1 == IF name = "FlowBeforeHeadingAtx"
              THEN [h0 EXCEPT !.heading_attempt =
                        Some([events |-> before.events, point |-> before.point])]
              ELSE h0
        h2 == IF name = "FlowStart" THEN [h1 EXCEPT !.tried = <<>>] ELSE h1
        h3 == IF name \in FlowChain
                    /\ Len(after.attempts) = Len(before.attempts) + 1
              THEN [h2 EXCEPT !.tried = Append(@,
                        [construct |-> after.state, point |-> before.point,
                         events_len |-> Len(before.events),
                         outcome |-> "Undecided"])]
              ELSE h2
        made == [construct |-> after.state, point |-> before.point,
                 by |-> ConstructOf(name)]
    IN  IF Len(after.attempts) = Len(before.attempts) + 1
        THEN [h3 EXCEPT
                !.attempted = @ \cup {made},
                !.repeated = IF made \in h3.attempted THEN @ \cup {made} ELSE @]
        ELSE h3

Init ==
    /\ input = <<>>
    /\ eof = FALSE
    /\ constructs \in [heading_atx : BOOLEAN, code_indented : {FALSE},
                       definition : {FALSE}]
    /\ tokenizer = Tokenizer_new("FlowStart")
    /\ phase = "tokenize"
    /\ history = History_new

Tabs(units) == Cardinality({k \in 1..Len(units) : units[k] = "\t"})

\* the next unit of the input is revealed (a document parsed as flow, with
\* definitions disabled)
Feed ==
    /\ phase = "tokenize" /\ ~Panicked
    /\ ~constructs.definition
    /\ tokenizer.state \notin Terminal
    /\ ~CurrentKnown
    /\ Len(input) < MaxLen
    /\ \E unit \in Alphabet :
        /\ unit # "#" => TextUnits(input) < MaxText
        /\ unit = "\t" => Tabs(input) < MaxTabs
        /\ input' = Append(input, unit)
    /\ UNCHANGED <<eof, constructs, tokenizer, phase, history>>

\* the input ends here
EndOfInput ==
    /\ phase = "tokenize" /\ ~Panicked
    /\ tokenizer.state \notin Terminal
    /\ ~CurrentKnown
    /\ eof' = TRUE
    /\ UNCHANGED <<input, constructs, tokenizer, phase, history>>

\* one turn of the engine's loop: the state function `name` is called on
\* the current unit
Run(name) ==
    /\ phase = "tokenize" /\ ~Panicked
    /\ tokenizer.state = name
    /\ CurrentKnown
    /\ tokenizer' = Call(name, [tokenizer EXCEPT !.current = CurrentUnit])
    /\ history' = Observed(name, tokenizer, tokenizer')
    /\ UNCHANGED <<input, eof, constructs, phase>>

FlowStart == Run("FlowStart")
FlowBefore == Run("FlowBefore")
FlowBeforeCodeFenced == Run("FlowBeforeCodeFenced")
FlowBeforeHtml == Run("FlowBeforeHtml")
FlowBeforeHeadingAtx == Run("FlowBeforeHeadingAtx")
FlowBeforeHeadingSetext == Run("FlowBeforeHeadingSetext")
FlowBeforeThematicBreak == Run("FlowBeforeThematicBreak")
FlowBeforeDefinition == Run("FlowBeforeDefinition")
FlowBeforeParagraph == Run("FlowBeforeParagraph")
FlowBlankLineAfter == Run("FlowBlankLineAfter")
FlowAfter == Run("FlowAfter")
HeadingAtxStart == Run("HeadingAtxStart")
HeadingAtxBefore == Run("HeadingAtxBefore")
HeadingAtxSequenceOpen == Run("HeadingAtxSequenceOpen")
HeadingAtxAtBreak == Run("HeadingAtxAtBreak")
HeadingAtxSequenceFurther == Run("HeadingAtxSequenceFurther")
HeadingAtxData == Run("HeadingAtxData")
SpaceOrTabStart == Run("SpaceOrTabStart")
SpaceOrTabInside == Run("SpaceOrTabInside")
BlankLineStart == Run("BlankLineStart")
BlankLineAfter == Run("BlankLineAfter")
ParagraphStart == Run("ParagraphStart")
ParagraphInside == Run("ParagraphInside")
CodeIndentedStart == Run("CodeIndentedStart")
CodeFencedStart == Run("CodeFencedStart")
HtmlFlowStart == Run("HtmlFlowStart")
HeadingSetextStart == Run("HeadingSetextStart")
ThematicBreakStart == Run("ThematicBreakStart")
DefinitionStart == Run("DefinitionStart")

\* a turn of the engine's loop on a terminal state with an attempt open
AttemptDecided ==
    /\ phase = "tokenize" /\ ~Panicked
    /\ tokenizer.state \in Terminal
    /\ tokenizer.attempts # <<>>
    /\ tokenizer' = attempt_handle(tokenizer)
    /\ history' =
        IF Len(tokenizer.attempts) = 1 /\ history.tried # <<>>
        THEN [history EXCEPT !.turns = @ + 1,
                             !.tried[Len(history.tried)].outcome =
                                tokenizer.state]
        ELSE [history EXCEPT !.turns = @ + 1]
    /\ UNCHANGED <<input, eof, constructs, phase>>

\* the outermost state machine ended: tokenizing is over
Flush ==
    /\ phase = "tokenize" /\ ~Panicked
    /\ tokenizer.state \in Terminal
    /\ tokenizer.attempts = <<>>
    /\ phase' = IF tokenizer.state = "Ok" THEN "resolve" ELSE "failed"
    /\ history' = [history EXCEPT !.tokenized = tokenizer.events]
    /\ UNCHANGED <<input, eof, constructs, tokenizer>>

\* the next registered resolver runs (the heading resolver is the only one)
RunResolver ==
    /\ phase = "resolve" /\ ~Panicked
    /\ tokenizer.resolvers # <<>>
    /\ tokenizer' =
        heading_atx_resolve([tokenizer EXCEPT !.resolvers = Tail(@)])
    /\ history' = [history EXCEPT !.resolver_runs = @ + 1]
    /\ UNCHANGED <<input, eof, constructs, phase>>

\* all resolvers ran: the edit map is applied to the log
MapConsume ==
    /\ phase = "resolve" /\ ~Panicked
    /\ tokenizer.resolvers = <<>>
    /\ \E overflow_checks \in BOOLEAN :
        LET result == EditMap_consume(tokenizer.map, tokenizer.events,
                                      overflow_checks)
        IN  tokenizer' = [tokenizer EXCEPT !.map = result.edit_map,
                                           !.events = result.events]
    /\ phase' = "done"
    /\ history' = [history EXCEPT !.consume_runs = @ + 1]
    /\ UNCHANGED <<input, eof, constructs>>

Next ==
    \/ Feed \/ EndOfInput
    \/ FlowStart \/ FlowBefore \/ FlowBeforeCodeFenced \/ FlowBeforeHtml
    \/ FlowBeforeHeadingAtx \/ FlowBeforeHeadingSetext
    \/ FlowBeforeThematicBreak \/ FlowBeforeDefinition \/ FlowBeforeParagraph
    \/ FlowBlankLineAfter \/ FlowAfter
    \/ HeadingAtxStart \/ HeadingAtxBefore \/ HeadingAtxSequenceOpen
    \/ HeadingAtxAtBreak \/ HeadingAtxSequenceFurther \/ HeadingAtxData
    \/ SpaceOrTabStart \/ SpaceOrTabInside
    \/ BlankLineStart \/ BlankLineAfter
    \/ ParagraphStart \/ ParagraphInside
    \/ CodeIndentedStart \/ CodeFencedStart \/ HtmlFlowStart
    \/ HeadingSetextStart \/ ThematicBreakStart \/ DefinitionStart
    \/ AttemptDecided \/ Flush \/ RunResolver \/ MapConsume

Spec == Init /\ [][Next]_vars

---------------------------------------------------------------------------
(* The title construct, attempted by its caller on an input of its own *)

\* the units of a title: the quotes, the parentheses, any other character,
\* a backslash, a line ending, a space
TitleAlphabet == {"\"", "'", "(", ")", "a", "\\", "\n", " "}

InitTitle ==
    /\ input = <<>>
    /\ eof = FALSE
    /\ constructs = [heading_atx |-> TRUE, code_indented |-> FALSE,
                     definition |-> TRUE]
    /\ tokenizer = Tokenizer_new("DefinitionTitleBeforeMarker")
    /\ phase = "tokenize"
    /\ history = History_new

\* the next unit of the input is revealed (the title of a definition)
FeedTitle ==
    /\ phase = "tokenize" /\ ~Panicked
    /\ constructs.definition
    /\ tokenizer.state \notin Terminal
    /\ ~CurrentKnown
    /\ Len(input) < MaxTitleLen
    /\ \E unit \in TitleAlphabet : input' = Append(input, unit)
    /\ UNCHANGED <<eof, constructs, tokenizer, phase, history>>

DefinitionTitleBeforeMarker == Run("DefinitionTitleBeforeMarker")
TitleStart == Run("TitleStart")
TitleBegin == Run("TitleBegin")
TitleAfterEol == Run("TitleAfterEol")
TitleAtBlankLine == Run("TitleAtBlankLine")
TitleInside == Run("TitleInside")
TitleEscape == Run("TitleEscape")
SpaceOrTabEolStart == Run("SpaceOrTabEolStart")
SpaceOrTabEolAtEol == Run("SpaceOrTabEolAtEol")
SpaceOrTabEolAfterEol == Run("SpaceOrTabEolAfterEol")
SpaceOrTabEolAfterMore == Run("SpaceOrTabEolAfterMore")

\* (TitleAtBreak and SpaceOrTabEolAfterFirst are never the state to run
\* next: at_break is only called by the other states, and the title asks
\* for a line ending only at a line ending, where no whitespace comes first)
NextTitle ==
    \/ FeedTitle \/ EndOfInput
    \/ DefinitionTitleBeforeMarker
    \/ TitleStart \/ TitleBegin \/ TitleAfterEol \/ TitleAtBlankLine
    \/ TitleInside \/ TitleEscape
    \/ SpaceOrTabEolStart \/ SpaceOrTabEolAtEol \/ SpaceOrTabEolAfterEol
    \/ SpaceOrTabEolAfterMore
    \/ SpaceOrTabStart \/ SpaceOrTabInside
    \/ AttemptDecided \/ Flush

SpecTitle == InitTitle /\ [][NextTitle]_vars

\* either run: a flow parse of a document, or the title of a definition
InitConstructs == Init \/ InitTitle
NextConstructs == Next \/ NextTitle
SpecConstructs == InitConstructs /\ [][NextConstructs]_vars

---------------------------------------------------------------------------
(* The edit map on its own: a log with linked events, a number of add and
   add_before calls, and consume *)

\* the removal counts of the calls made
RemoveCounts == {0, 1}

\* the next linked index after (before) i, as an Option
NextIn(linked, i) ==
    IF \E j \in linked : j > i
    THEN Some(CHOOSE j \in linked : j > i /\ \A k \in linked : k > i => j <= k)
    ELSE None

PreviousIn(linked, i) ==
    IF \E j \in linked : j < i
    THEN Some(CHOOSE j \in linked : j < i /\ \A k \in linked : k < i => j >= k)
    ELSE None

\* a log of MaxLog events, told apart by their points, of which those with
\* an index in `linked` are the Data events of one chain
LinkedLog(linked) ==
    [i \in 1..MaxLog |->
        IF (i - 1) \in linked
        THEN Event("Enter", "Data", i - 1,
                   Some(Link(PreviousIn(linked, i - 1), NextIn(linked, i - 1),
                             "String")))
        ELSE Event("Exit", "SpaceOrTab", i - 1, None)]

\* the event the n-th call inserts
Inserted(n) == Event("Enter", "HeadingAtxText", n, None)

InitEdit ==
    /\ input = <<>>
    /\ eof = TRUE
    /\ constructs = [heading_atx |-> TRUE, code_indented |-> FALSE,
                     definition |-> FALSE]
    /\ \E linked \in SUBSET (0..(MaxLog - 1)) :
        tokenizer = [Tokenizer_new("Ok") EXCEPT !.events = LinkedLog(linked)]
    /\ phase = "edit"
    /\ history = History_new

Queue(before) ==
    /\ phase = "edit" /\ ~Panicked
    /\ history.calls < MaxCalls
    /\ \E at \in 0..Len(tokenizer.events), remove \in RemoveCounts,
          add \in {<<>>, <<Inserted(history.calls)>>} :
        /\ tokenizer' = [tokenizer EXCEPT !.map =
                            add_impl(@, at, remove, add, before)]
        /\ history' = [history EXCEPT
                        !.calls = @ + 1,
                        !.call = Some([op |-> "add", at |-> at,
                                       remove |-> remove, add |-> add,
                                       before |-> before])]
    /\ UNCHANGED <<input, eof, constructs, phase>>

\* EditMap::add is called
Add == Queue(FALSE)

\* EditMap::add_before is called
AddBefore == Queue(TRUE)

\* EditMap::consume is called on the log
Consume ==
    /\ phase = "edit" /\ ~Panicked
    /\ history.consume_runs < 2
    /\ \E overflow_checks \in BOOLEAN :
        LET result == EditMap_consume(tokenizer.map, tokenizer.events,
                                      overflow_checks)
        IN  tokenizer' = [tokenizer EXCEPT !.map = result.edit_map,
                                           !.events = result.events]
    /\ history' = [history EXCEPT
                    !.consume_runs = @ + 1,
                    !.tokenized = tokenizer.events,
                    !.call = Some([op |-> "consume"])]
    /\ UNCHANGED <<input, eof, constructs, phase>>

NextEdit == Add \/ AddBefore \/ Consume

SpecEdit == InitEdit /\ [][NextEdit]_vars

---------------------------------------------------------------------------
(* Properties of the edit map *)

\* the entries are in range of a log of `len` events and no two regions
\* [at, at + remove) overlap, the anchors being distinct
Regular(map, len) ==
    /\ \A i \in 1..Len(map) : map[i].at + map[i].remove <= len
    /\ \A i, j \in 1..Len(map) :
        i # j => /\ map[i].at # map[j].at
                 /\ map[i].at < map[j].at =>
                        map[i].at + map[i].remove <= map[j].at

\* the 0-based index i is removed by an entry of `map`
Removed(map, i) ==
    \E k \in 1..Len(map) : map[k].at <= i /\ i < map[k].at + map[k].remove

HasLink(events, i) == i < Len(events) /\ IsSome(events[i + 1].link)
LinkOf(events, i) == Unwrap(events[i + 1].link)

\* following next from i ends within `fuel` steps at an event with no next
RECURSIVE NextEnds(_, _, _)
NextEnds(events, i, fuel) ==
    /\ HasLink(events, i)
    /\ \/ LinkOf(events, i).next = None
       \/ /\ fuel > 0
          /\ NextEnds(events, Unwrap(LinkOf(events, i).next), fuel - 1)

\* the links of `events` form chains: next and previous are inverses of
\* each other, and following next ends
Chains(events) ==
    \A i \in 0..(Len(events) - 1) :
        HasLink(events, i) =>
            /\ IsSome(LinkOf(events, i).next) =>
                LET j == Unwrap(LinkOf(events, i).next)
                IN  HasLink(events, j) /\ LinkOf(events, j).previous = Some(i)
            /\ IsSome(LinkOf(events, i).previous) =>
                LET j == Unwrap(LinkOf(events, i).previous)
                IN  HasLink(events, j) /\ LinkOf(events, j).next = Some(i)
            /\ NextEnds(events, i, Len(events))

\* what tells one logical event from another
Ident(event) == <<event.event_type, event.token_type, event.point>>

\* the logical event an Option index of `events` points at
Target(events, o) ==
    IF o = None THEN None
    ELSE IF Unwrap(o) < Len(events) THEN Some(Ident(events[Unwrap(o) + 1]))
    ELSE Some("nothing")

\* every linked event of `after` that was in `before` points at the logical
\* events it pointed at in `before`
SameTargets(before, after) ==
    \A i \in 0..(Len(after) - 1), j \in 0..(Len(before) - 1) :
        (Ident(after[i + 1]) = Ident(before[j + 1]) /\ HasLink(before, j)) =>
            /\ HasLink(after, i)
            /\ Target(after, LinkOf(after, i).next)
                    = Target(before, LinkOf(before, j).next)
            /\ Target(after, LinkOf(after, i).previous)
                    = Target(before, LinkOf(before, j).previous)

\* no kept event of `events` links to an event that `map` removes
KeepsTargets(map, events) ==
    \A i \in 0..(Len(events) - 1) :
        (HasLink(events, i) /\ ~Removed(map, i)) =>
            /\ IsSome(LinkOf(events, i).next) =>
                    ~Removed(map, Unwrap(LinkOf(events, i).next))
            /\ IsSome(LinkOf(events, i).previous) =>
                    ~Removed(map, Unwrap(LinkOf(events, i).previous))

\* consume has returned from its first call; history.tokenized is the log
\* it was given, and the entries still hold the anchors and removal counts
Consumed ==
    /\ phase = "edit" /\ history.consume_runs = 1 /\ ~Panicked
    /\ Chains(history.tokenized)
    /\ Regular(tokenizer.map.map, Len(history.tokenized))

\* C3 as stated: after consume has applied any in-range, non-overlapping
\* batch to a log whose links form chains, the links form chains and point
\* at the logical events they pointed at.
C3_AnyBatchKeepsChains ==
    Consumed =>
        /\ Chains(tokenizer.events)
        /\ SameTargets(history.tokenized, tokenizer.events)

\* C3 as amended: the same, for a batch that removes no event a kept event
\* links to.
C3_KeptTargetsKeepChains ==
    (Consumed /\ KeepsTargets(tokenizer.map.map, history.tokenized)) =>
        /\ Chains(tokenizer.events)
        /\ SameTargets(history.tokenized, tokenizer.events)

\* a batch that inserts and removes was applied to a chain of two or more
\* events, none of them removed, and a link index has changed
C3_Witness ==
    /\ Consumed /\ KeepsTargets(tokenizer.map.map, history.tokenized)
    /\ Len(tokenizer.map.map) >= 2
    /\ \E k \in 1..Len(tokenizer.map.map) : tokenizer.map.map[k].remove > 0
    /\ \E i \in 0..(Len(tokenizer.events) - 1),
          j \in 0..(Len(history.tokenized) - 1) :
        /\ Ident(tokenizer.events[i + 1]) = Ident(history.tokenized[j + 1])
        /\ HasLink(history.tokenized, j)
        /\ IsSome(LinkOf(history.tokenized, j).next)
        /\ LinkOf(tokenizer.events, i).next # LinkOf(history.tokenized, j).next

\* the entries of `entries` queued with add, in their order, on a new map
RECURSIVE QueueAll(_, _)
QueueAll(edit_map, entries) ==
    IF entries = <<>> THEN edit_map
    ELSE QueueAll(EditMap_add(edit_map, Head(entries).at, Head(entries).remove,
                              Head(entries).add),
                  Tail(entries))

Permuted(seq, p) == [i \in 1..Len(seq) |-> seq[p[i]]]

Unconsumed == phase = "edit" /\ ~tokenizer.map.consumed /\ ~Panicked

\* C4: edits with distinct anchors and non-overlapping regions, queued with
\* add in any order, give the same log after consume.
C4_OrderIndependent ==
    (Unconsumed /\ Regular(tokenizer.map.map, Len(tokenizer.events))) =>
        \A p \in Permutations(1..Len(tokenizer.map.map)) :
            \A overflow_checks \in BOOLEAN :
                LET other == QueueAll(EditMap_new,
                                      Permuted(tokenizer.map.map, p))
                    here == EditMap_consume(tokenizer.map, tokenizer.events,
                                            overflow_checks)
                    there == EditMap_consume(other, tokenizer.events,
                                             overflow_checks)
                IN  /\ there.events = here.events
                    /\ there.edit_map.panic = here.edit_map.panic

\* two edits that insert and remove were queued from the higher anchor to
\* the lower on a log with a chain
C4_Witness ==
    /\ Unconsumed /\ Regular(tokenizer.map.map, Len(tokenizer.events))
    /\ Len(tokenizer.map.map) = 2
    /\ tokenizer.map.map[1].at > tokenizer.map.map[2].at
    /\ tokenizer.map.map[1].add # <<>> /\ tokenizer.map.map[2].remove > 0
    /\ \E i \in 0..(Len(tokenizer.events) - 1) :
        HasLink(tokenizer.events, i) /\ IsSome(LinkOf(tokenizer.events, i).next)

\* the step is a call of add or add_before that returned
Queued ==
    /\ phase = "edit" /\ ~tokenizer.map.consumed
    /\ history'.calls = history.calls + 1

\* C5: the edit map holds at most one entry per anchor; a call on an anchor
\* that has an entry adds its removal count to the entry's and puts its
\* events after the entry's (add) or before them (add_before).
C5_SameAnchorMerges ==
    /\ [](\A i, j \in 1..Len(tokenizer.map.map) :
            i # j => tokenizer.map.map[i].at # tokenizer.map.map[j].at)
    /\ [][Queued =>
            LET call == Unwrap(history'.call)
                old == tokenizer.map.map
                new == tokenizer'.map.map
            IN  \A i \in 1..Len(old) :
                    old[i].at = call.at =>
                        new = [old EXCEPT ![i] =
                                [at |-> call.at,
                                 remove |-> old[i].remove + call.remove,
                                 add |-> IF call.before
                                         THEN call.add \o old[i].add
                                         ELSE old[i].add \o call.add]]]_vars

\* add_before was called on an anchor that had an entry with an event, and
\* the entry now holds the new event before the old one
C5_Witness ==
    /\ Unconsumed /\ history.calls = 2
    /\ Unwrap(history.call).before
    /\ Len(tokenizer.map.map) = 1
    /\ tokenizer.map.map[1].add = <<Inserted(1), Inserted(0)>>
    /\ tokenizer.map.map[1].remove = 2

\* C6: a call of add or add_before with remove = 0 and no events leaves the
\* edit map as it was: no entry is made, so the log after consume is the
\* same as without the call.
C6_NoOpInvisible ==
    [][(Queued /\ Unwrap(history'.call).remove = 0
               /\ Unwrap(history'.call).add = <<>>) =>
            /\ tokenizer'.map = tokenizer.map
            /\ tokenizer'.events = tokenizer.events]_vars

\* a call with remove = 0 and no events was made on an anchor with no
\* entry, after another edit was queued
C6_Witness ==
    /\ Unconsumed /\ history.calls = 2
    /\ Unwrap(history.call).remove = 0 /\ Unwrap(history.call).add = <<>>
    /\ Len(tokenizer.map.map) = 1
    /\ tokenizer.map.map[1].at # Unwrap(history.call).at

\* C7: once consume has run, a call of consume, add or add_before panics,
\* and the log is left as the first consume produced it.
C7_OneShot ==
    [][(phase = "edit" /\ tokenizer.map.consumed) =>
            /\ tokenizer'.map.panic # ""
            /\ tokenizer'.events = tokenizer.events]_vars

\* consume was called a second time, on a map with an entry that had
\* changed the log, and panicked
C7_Witness ==
    /\ phase = "edit" /\ history.consume_runs = 2
    /\ tokenizer.map.panic = "cannot consume after consuming"
    /\ Len(tokenizer.map.map) > 0
    /\ Len(tokenizer.events) # MaxLog

---------------------------------------------------------------------------
(* Properties of a flow parse *)

\* C1: when the heading (atx) construct, attempted by the flow chain, ends
\* in Nok, the failure continuation sees the event log and the position of
\* the moment the attempt started.
C1_RollbackExact ==
    (phase = "tokenize" /\ tokenizer.state = "FlowBeforeHeadingSetext") =>
        /\ IsSome(history.heading_attempt)
        /\ tokenizer.events = Unwrap(history.heading_attempt).events
        /\ tokenizer.point = Unwrap(history.heading_attempt).point

\* the enabled construct failed at a 7th '#', after six were consumed
C1_Witness ==
    /\ phase = "tokenize" /\ tokenizer.state = "FlowBeforeHeadingSetext"
    /\ constructs.heading_atx
    /\ tokenizer.point + HEADING_ATX_OPENING_FENCE_SIZE_MAX + 1 <= Len(input)
    /\ \A k \in 1..(HEADING_ATX_OPENING_FENCE_SIZE_MAX + 1) :
        input[tokenizer.point + k] = "#"

\* every Exit closes the nearest open Enter, of its token type, and no
\* Enter is left open
RECURSIVE BalancedFrom(_, _, _)
BalancedFrom(events, i, open) ==
    IF i > Len(events) THEN open = <<>>
    ELSE IF events[i].event_type = "Enter"
    THEN BalancedFrom(events, i + 1, Append(open, events[i].token_type))
    ELSE /\ open # <<>>
         /\ open[Len(open)] = events[i].token_type
         /\ BalancedFrom(events, i + 1, SubSeq(open, 1, Len(open) - 1))

Balanced(events) == BalancedFrom(events, 1, <<>>)

Has(events, event_type, token_type) ==
    \E i \in 1..Len(events) :
        events[i].event_type = event_type /\ events[i].token_type = token_type

\* C2: the event log of a completed flow parse is balanced and properly
\* nested, before the heading resolver's edits are applied and after.
C2_Balanced ==
    phase \in {"resolve", "done"} => Balanced(tokenizer.events)

\* the parse of a paragraph line and a heading with text is done, its edits
\* applied
C2_Witness ==
    /\ phase = "done"
    /\ Has(tokenizer.events, "Enter", "Paragraph")
    /\ Has(tokenizer.events, "Enter", "HeadingAtxText")
    /\ Has(tokenizer.events, "Exit", "HeadingAtxSequence")

\* the heading spans of `events`: the 1-based places of an Enter of
\* HeadingAtx and of the next Exit of HeadingAtx
HeadingSpans(events) ==
    {span \in (1..Len(events)) \X (1..Len(events)) :
        /\ span[1] < span[2]
        /\ events[span[1]] .token_type = "HeadingAtx"
        /\ events[span[1]].event_type = "Enter"
        /\ events[span[2]].token_type = "HeadingAtx"
        /\ events[span[2]].event_type = "Exit"
        /\ \A k \in (span[1] + 1)..(span[2] - 1) :
            events[k].token_type # "HeadingAtx"}

\* the places within `span` of the events of that kind
Within(events, span, event_type, token_type) ==
    {k \in span[1]..span[2] :
        events[k].event_type = event_type /\ events[k].token_type = token_type}

\* C8: the heading resolver runs once per parse, after tokenizing, however
\* many headings matched, and the final log holds one HeadingAtxText span in
\* each heading that has text and none in the others.
C8_ResolvedOnce ==
    /\ phase = "tokenize" => history.resolver_runs = 0
    /\ phase = "done" =>
        /\ history.resolver_runs =
            IF Has(history.tokenized, "Enter", "HeadingAtx") THEN 1 ELSE 0
        /\ \A span \in HeadingSpans(tokenizer.events) :
            LET texts == Cardinality(Within(tokenizer.events, span, "Enter",
                                            "HeadingAtxText"))
                ends == Cardinality(Within(tokenizer.events, span, "Exit",
                                           "HeadingAtxText"))
                data == Cardinality(Within(tokenizer.events, span, "Enter",
                                           "Data"))
            IN  /\ texts = ends
                /\ texts = IF data > 0 THEN 1 ELSE 0

\* two headings matched, one of them with text, and the parse is done
C8_Witness ==
    /\ phase = "done"
    /\ Cardinality(HeadingSpans(tokenizer.events)) >= 2
    /\ Has(tokenizer.events, "Enter", "HeadingAtxText")
    /\ Len(tokenizer.resolver_ids) = 1

\* C9: a run of the heading resolver leaves the event log as it is and only
\* queues edits, whose indices lie in that log; the edit map is consumed
\* once, after all resolvers have run.
C9_TwoPhase ==
    /\ [](phase \in {"tokenize", "resolve"} =>
            ~tokenizer.map.consumed /\ history.consume_runs = 0)
    /\ [](phase = "done" =>
            /\ tokenizer.map.consumed /\ history.consume_runs = 1
            /\ tokenizer.resolvers = <<>>)
    /\ [][(phase = "resolve" /\ phase' = "resolve") =>
            /\ tokenizer'.events = tokenizer.events
            /\ \A k \in 1..Len(tokenizer'.map.map) :
                tokenizer'.map.map[k].at + tokenizer'.map.map[k].remove
                    <= Len(tokenizer.events)]_vars

\* the resolver has run on a log with a heading of two Data spans and queued
\* its three edits, a removal among them; the log is the tokenized one
C9_Witness ==
    /\ phase = "resolve" /\ history.resolver_runs = 1
    /\ tokenizer.events = history.tokenized
    /\ Len(tokenizer.map.map) >= 3
    /\ \E k \in 1..Len(tokenizer.map.map) : tokenizer.map.map[k].remove > 0

\* the first Data Enter and the last Data Exit of a heading span, if any
FirstData(events, span) ==
    LET enters == Within(events, span, "Enter", "Data")
    IN  CHOOSE k \in enters : \A l \in enters : k <= l

LastData(events, span) ==
    LET exits == Within(events, span, "Exit", "Data")
    IN  CHOOSE k \in exits : \A l \in exits : k >= l

\* what the collapse of the headings' text makes of the event at place k
CollapsedAt(events, k) ==
    LET spans == {span \in HeadingSpans(events) :
                    /\ span[1] <= k /\ k <= span[2]
                    /\ Within(events, span, "Enter", "Data") # {}}
    IN  IF spans = {} THEN <<events[k]>>
        ELSE LET span == CHOOSE span \in spans : TRUE
                 first == FirstData(events, span)
                 last == LastData(events, span)
             IN  IF k = first
                 THEN <<Event("Enter", "HeadingAtxText", events[first].point,
                              None),
                        events[k]>>
                 ELSE IF k = last
                 THEN <<events[k],
                        Event("Exit", "HeadingAtxText", events[last].point,
                              None)>>
                 ELSE IF first < k /\ k < last THEN <<>>
                 ELSE <<events[k]>>

Collapsed(events) ==
    Concat([k \in 1..Len(events) |-> CollapsedAt(events, k)])

\* C10: after the edits are applied, each heading that had a Data span
\* holds one HeadingAtxText span around one Data span, from the first Data
\* Enter to the last Data Exit; the events between the two are gone; every
\* other event is kept, in its order.
C10_TextCollapsed ==
    phase = "done" => tokenizer.events = Collapsed(history.tokenized)

\* a heading with two Data spans was collapsed: the log became shorter
C10_Witness ==
    /\ phase = "done"
    /\ Len(tokenizer.events) < Len(history.tokenized)
    /\ \E span \in HeadingSpans(history.tokenized) :
        Cardinality(Within(history.tokenized, span, "Enter", "Data")) >= 2

\* the heading spans of `events` in the order of the log
SpanBefore(a, b) == a[1] < b[1]

NthSpan(events, n) ==
    CHOOSE span \in HeadingSpans(events) :
        Cardinality({other \in HeadingSpans(events) : SpanBefore(other, span)})
            = n - 1

HasData(events, span) == Within(events, span, "Enter", "Data") # {}

\* the resolver is through: it ran, or no heading registered it
Resolved ==
    phase = "resolve" /\ tokenizer.resolvers = <<>> /\ ~tokenizer.map.consumed

\* C11: for a heading without a Data span the resolver queues no edit, none
\* left over from an earlier heading either: every queued edit lies within a
\* heading that has data and inserts at most one event; after consume the
\* events of a heading without data are those tokenization produced, no
\* HeadingAtxText among them.
C11_EmptyHeadingUntouched ==
    /\ Resolved =>
        \A k \in 1..Len(tokenizer.map.map) :
            LET entry == tokenizer.map.map[k]
            IN  /\ Len(entry.add) <= 1
                /\ \E span \in HeadingSpans(tokenizer.events) :
                    /\ HasData(tokenizer.events, span)
                    /\ span[1] <= entry.at
                    /\ entry.at + entry.remove < span[2]
    /\ phase = "done" =>
        /\ Cardinality(HeadingSpans(tokenizer.events))
            = Cardinality(HeadingSpans(history.tokenized))
        /\ \A n \in 1..Cardinality(HeadingSpans(history.tokenized)) :
            LET before == NthSpan(history.tokenized, n)
                after == NthSpan(tokenizer.events, n)
            IN  ~HasData(history.tokenized, before) =>
                    /\ SubSeq(tokenizer.events, after[1], after[2])
                        = SubSeq(history.tokenized, before[1], before[2])
                    /\ Within(tokenizer.events, after, "Enter",
                              "HeadingAtxText") = {}

\* a heading with text was followed by a heading without, and the edits are
\* applied
C11_Witness ==
    /\ phase = "done"
    /\ Cardinality(HeadingSpans(history.tokenized)) = 2
    /\ HasData(history.tokenized, NthSpan(history.tokenized, 1))
    /\ ~HasData(history.tokenized, NthSpan(history.tokenized, 2))
    /\ Has(tokenizer.events, "Enter", "HeadingAtxText")

\* the 0-based offsets at which a line of `units` starts
LineStarts(units) ==
    {i \in 0..(Len(units) - 1) : i = 0 \/ units[i] = "\n"}

\* the offset of the line ending, or of the end, that ends the line at `start`
LineEnd(units, start) ==
    CHOOSE e \in start..Len(units) :
        /\ e = Len(units) \/ units[e + 1] = "\n"
        /\ \A k \in start..(e - 1) : units[k + 1] # "\n"

\* a line with something else than whitespace on it
NonBlank(units, start) ==
    \E k \in start..(LineEnd(units, start) - 1) : units[k + 1] \notin Whitespace

PointsOf(events, event_type, token_type) ==
    {events[k].point : k \in {j \in 1..Len(events) :
        events[j].event_type = event_type /\ events[j].token_type = token_type}}

HeadingTokens == {"HeadingAtx", "HeadingAtxSequence", "HeadingAtxText"}

\* C12: with heading (atx) disabled, its start state returns Nok and pushes
\* no event, consumes nothing and registers no resolver; no heading event is
\* ever in the log; the flow chain goes on, and every line that is not blank,
\* a line of '#' included, is a paragraph whose data covers the whole line.
C12_DisabledFallsThrough ==
    /\ [](~constructs.heading_atx =>
            /\ \A k \in 1..Len(tokenizer.events) :
                tokenizer.events[k].token_type \notin HeadingTokens
            /\ tokenizer.resolver_ids = <<>>
            /\ tokenizer.resolvers = <<>>
            /\ phase = "done" =>
                /\ tokenizer.events = history.tokenized
                /\ PointsOf(tokenizer.events, "Enter", "Paragraph")
                    = {i \in LineStarts(input) : NonBlank(input, i)}
                /\ PointsOf(tokenizer.events, "Enter", "Data")
                    = {i \in LineStarts(input) : NonBlank(input, i)}
                /\ PointsOf(tokenizer.events, "Exit", "Data")
                    = {LineEnd(input, i) :
                        i \in {j \in LineStarts(input) : NonBlank(input, j)}})
    /\ [][(/\ phase = "tokenize" /\ ~constructs.heading_atx
            /\ tokenizer.state = "HeadingAtxStart"
            /\ tokenizer' # tokenizer) =>
                /\ tokenizer'.state = "Nok"
                /\ tokenizer'.events = tokenizer.events
                /\ tokenizer'.point = tokenizer.point
                /\ tokenizer'.resolver_ids = tokenizer.resolver_ids
                /\ tokenizer'.attempts = tokenizer.attempts]_vars

\* the line `## a` was parsed with the construct disabled
C12_Witness ==
    /\ phase = "done" /\ ~constructs.heading_atx
    /\ input = <<"#", "#", " ", "a">>
    /\ Has(tokenizer.events, "Exit", "Paragraph")

---------------------------------------------------------------------------
(* Properties of the title construct *)

\* the 1-based places of the Enter events that carry a link
Linked(events) ==
    {k \in 1..Len(events) :
        events[k].event_type = "Enter" /\ IsSome(events[k].link)}

DataEnters(events) ==
    {k \in 1..Len(events) :
        events[k].event_type = "Enter" /\ events[k].token_type = "Data"}

\* following `next` from place `from` reaches place `to` (in at most `fuel`
\* steps)
RECURSIVE NextReaches(_, _, _, _)
NextReaches(events, from, to, fuel) ==
    \/ from = to
    \/ /\ fuel > 0
       /\ IsSome(events[from].link)
       /\ IsSome(Unwrap(events[from].link).next)
       /\ Unwrap(Unwrap(events[from].link).next) + 1 \in 1..Len(events)
       /\ NextReaches(events, Unwrap(Unwrap(events[from].link).next) + 1, to,
                      fuel - 1)

RECURSIVE PreviousReaches(_, _, _, _)
PreviousReaches(events, from, to, fuel) ==
    \/ from = to
    \/ /\ fuel > 0
       /\ IsSome(events[from].link)
       /\ IsSome(Unwrap(events[from].link).previous)
       /\ Unwrap(Unwrap(events[from].link).previous) + 1 \in 1..Len(events)
       /\ PreviousReaches(events,
                          Unwrap(Unwrap(events[from].link).previous) + 1, to,
                          fuel - 1)

\* the title is under way or has matched: nothing of it was rolled back
TitleStanding ==
    /\ phase \in {"tokenize", "resolve"}
    /\ tokenizer.state \notin {"Nok", "TitleAtBlankLine"}

\* each Data span lies on one line and is closed before the next event
DataPerLine(events) ==
    \A k \in DataEnters(events) :
        k < Len(events) =>
            /\ events[k + 1].event_type = "Exit"
            /\ events[k + 1].token_type = "Data"
            /\ events[k].point < events[k + 1].point
            /\ \A i \in events[k].point..(events[k + 1].point - 1) :
                input[i + 1] # "\n"

\* every Data Enter after the first is linked into the run of the first:
\* next leads from the first to the last, previous from the last to the
\* first, and the run ends in an event without next
OneRun(events) ==
    \A first, last \in DataEnters(events) :
        (/\ \A k \in DataEnters(events) : first <= k /\ k <= last) =>
            /\ NextReaches(events, first, last, Len(events))
            /\ PreviousReaches(events, last, first, Len(events))
            /\ \A k \in DataEnters(events) :
                /\ NextReaches(events, first, k, Len(events))
                /\ k # first =>
                    IsSome(Unwrap(events[k].link).previous)
            /\ \A end \in Linked(events) :
                (\A k \in Linked(events) : k <= end) =>
                    /\ NextReaches(events, last, end, Len(events))
                    /\ Unwrap(events[end].link).next = None

---------------------------------------------------------------------------
(* Properties of the flow chain *)

\* the order in which flow tries the constructs
FlowOrder ==
    <<"BlankLineStart", "CodeIndentedStart", "CodeFencedStart",
      "HtmlFlowStart", "HeadingAtxStart", "HeadingSetextStart",
      "ThematicBreakStart", "DefinitionStart", "ParagraphStart">>

\* C14: on every line the flow chain attempts the constructs in the fixed
\* order blank line, code (indented), code (fenced), HTML (flow), heading
\* (atx), heading (setext), thematic break, definition, paragraph, all at
\* the position where the line starts and on the same log; a construct is
\* attempted only after all earlier ones returned Nok there, and the first
\* to return Ok decides the line.
C14_FixedOrder ==
    phase = "tokenize" =>
        /\ Len(history.tried) <= Len(FlowOrder)
        /\ \A i \in 1..Len(history.tried) :
            /\ history.tried[i].construct = FlowOrder[i]
            /\ history.tried[i].point = history.tried[1].point
            /\ history.tried[i].events_len = history.tried[1].events_len
            /\ i < Len(history.tried) => history.tried[i].outcome = "Nok"
        /\ (tokenizer.state \in FlowChain \ {"FlowStart"}
                /\ tokenizer.attempts = <<>>) =>
            /\ history.tried # <<>>
            /\ history.tried[Len(history.tried)].outcome = "Nok"
            /\ tokenizer.point = history.tried[1].point
        /\ (tokenizer.state \in {"FlowAfter", "FlowBlankLineAfter"}) =>
            /\ tokenizer.attempts = <<>>
            /\ history.tried # <<>>
            /\ history.tried[Len(history.tried)].outcome = "Ok"
        /\ (tokenizer.state = "FlowBlankLineAfter") => Len(history.tried) = 1

\* on a second line every construct before the paragraph returned Nok and
\* the paragraph decided the line
C14_Witness ==
    /\ phase = "tokenize" /\ tokenizer.state = "FlowAfter"
    /\ Len(history.tried) = Len(FlowOrder)
    /\ history.tried[1].point > 0
    /\ history.tried[Len(FlowOrder)].outcome = "Ok"

\* C15: whatever the input, the flow state machine does not return Nok and
\* does not reach the unreachable!("expected eol/eof") of after and
\* blank_line_after, nor any other panic: a Nok is always that of an
\* attempted construct, after and blank_line_after are at a line ending or
\* at the end, and flow ends in Ok.
C15_NeverNok ==
    /\ phase # "failed"
    /\ tokenizer.panic = ""
    /\ (phase = "tokenize" /\ tokenizer.state = "Nok") =>
        tokenizer.attempts # <<>>
    /\ (/\ phase = "tokenize"
        /\ tokenizer.state \in {"FlowAfter", "FlowBlankLineAfter"}
        /\ CurrentKnown) => CurrentUnit \in {Eof, "\n"}
    /\ phase \in {"resolve", "done"} =>
        /\ tokenizer.state = "Ok"
        /\ tokenizer.point = Len(input)

\* an input no heading matches (a '#' run followed by a letter, then a line
\* of whitespace and a '#') was parsed to the end
C15_Witness ==
    /\ phase = "done" /\ constructs.heading_atx
    /\ input = <<"#", "a", "\n", " ", "#", "#", "a">>
    /\ ~Has(tokenizer.events, "Enter", "HeadingAtx")

\* the end of a parse of the whole input
ParsedToEnd ==
    phase = "done" /\ tokenizer.state = "Ok" /\ tokenizer.point = Len(input)

\* since flow was last at its start state, input was consumed
LineProgress ==
    (phase = "tokenize" /\ tokenizer.state = "FlowStart"
        /\ history.tried # <<>>) =>
            tokenizer.point > history.tried[1].point

\* the states the engine can run in a flow parse
FlowStateNames ==
    FlowChain \cup
    {"FlowBlankLineAfter", "FlowAfter", "HeadingAtxStart", "HeadingAtxBefore",
     "HeadingAtxSequenceOpen", "HeadingAtxAtBreak",
     "HeadingAtxSequenceFurther", "HeadingAtxData", "SpaceOrTabStart",
     "SpaceOrTabInside", "BlankLineStart", "BlankLineAfter", "ParagraphStart",
     "ParagraphInside", "CodeIndentedStart", "CodeFencedStart",
     "HtmlFlowStart", "HeadingSetextStart", "ThematicBreakStart",
     "DefinitionStart"}

\* the parse goes on: the rest of the input, a turn of the engine, a
\* resolver or the edit map is due
GoesOn ==
    /\ ~Panicked
    /\ \/ /\ phase = "tokenize"
          /\ \/ ~CurrentKnown
             \/ tokenizer.state \in FlowStateNames
             \/ tokenizer.state \in Terminal
       \/ phase = "resolve"

---------------------------------------------------------------------------
(* Properties of the attempts and of the scratch fields *)

\* C17: attempts are strictly nested.  The snapshot of an attempt started
\* within another lies within the other's window (log and position at or
\* after the enclosing snapshot), and so do the log and the position at all
\* times; the innermost attempt is decided first, the enclosing ones staying
\* open; on Nok it is rolled back to its own snapshot, never to before the
\* snapshot of an enclosing attempt, on Ok nothing is rolled back; when the
\* run ends no attempt is open.
C17_StrictlyNested ==
    /\ [](\A j \in 1..Len(tokenizer.attempts) :
            /\ tokenizer.attempts[j].events_len <= Len(tokenizer.events)
            /\ tokenizer.attempts[j].point <= tokenizer.point
            /\ \A i \in 1..(j - 1) :
                /\ tokenizer.attempts[i].events_len
                    <= tokenizer.attempts[j].events_len
                /\ tokenizer.attempts[i].point <= tokenizer.attempts[j].point)
    /\ [](phase # "tokenize" => tokenizer.attempts = <<>>)
    /\ [][Len(tokenizer'.attempts) < Len(tokenizer.attempts) =>
            LET inner == tokenizer.attempts[Len(tokenizer.attempts)]
            IN  /\ tokenizer.state \in Terminal
                /\ tokenizer'.attempts
                    = SubSeq(tokenizer.attempts, 1, Len(tokenizer.attempts) - 1)
                /\ tokenizer.state = "Nok" =>
                    /\ tokenizer'.events
                        = SubSeq(tokenizer.events, 1, inner.events_len)
                    /\ tokenizer'.point = inner.point
                    /\ tokenizer'.state = inner.nok
                /\ tokenizer.state = "Ok" =>
                    /\ tokenizer'.events = tokenizer.events
                    /\ tokenizer'.point = tokenizer.point
                    /\ tokenizer'.state = inner.ok
                /\ \A i \in 1..Len(tokenizer'.attempts) :
                    /\ tokenizer'.attempts[i].events_len
                        <= Len(tokenizer'.events)
                    /\ tokenizer'.attempts[i].point <= tokenizer'.point]_vars

\* on a second line, a whitespace attempt of the heading, made within
\* flow's attempt on the heading, has failed and is about to be rolled back
C17_Witness ==
    /\ phase = "tokenize" /\ tokenizer.state = "Nok"
    /\ Len(tokenizer.attempts) = 2
    /\ tokenizer.attempts[2].nok = "Nok"
    /\ tokenizer.attempts[1].nok = "FlowBeforeHeadingSetext"
    /\ tokenizer.attempts[1].events_len > 0
    /\ tokenizer.attempts[2].events_len > tokenizer.attempts[1].events_len
    /\ tokenizer.attempts[2].point > tokenizer.attempts[1].point

\* likewise in a title: its line-ending attempt, made within the attempt of
\* the title's caller, has failed at a blank line and is about to be rolled
\* back, the line ending with it
AttemptWithinTitle ==
    /\ phase = "tokenize" /\ tokenizer.state = "Nok"
    /\ Len(tokenizer.attempts) = 2
    /\ tokenizer.attempts[2].nok = "TitleAtBlankLine"
    /\ Len(tokenizer.events) > tokenizer.attempts[2].events_len

\* the heading construct has returned to flow, which attempted it
HeadingReturned ==
    /\ phase = "tokenize" /\ tokenizer.state \in Terminal
    /\ Len(tokenizer.attempts) = 1
    /\ tokenizer.attempts[1].nok = "FlowBeforeHeadingSetext"

\* the title construct has returned to its caller, which attempted it
TitleReturned ==
    /\ phase = "tokenize" /\ tokenizer.state \in Terminal
    /\ Len(tokenizer.attempts) = 1
    /\ tokenizer.token_1 = "DefinitionTitle"

\* C18: the constructs zero the scratch fields they used.  The heading
\* starts with size 0 and returns, Ok or Nok, with size 0; the title starts
\* with marker 0 and connect false and returns, Ok or Nok, with marker 0 and
\* connect false.
C18_ScratchZeroed ==
    /\ (phase = "tokenize" /\ tokenizer.state = "HeadingAtxStart") =>
        tokenizer.size = 0
    /\ HeadingReturned => tokenizer.size = 0
    /\ (phase = "tokenize" /\ tokenizer.state = "TitleStart") =>
        tokenizer.marker = Nul /\ ~tokenizer.connect
    /\ TitleReturned => tokenizer.marker = Nul /\ ~tokenizer.connect

\* a title that had a marker and linked data has returned Nok at a blank
\* line
C18_Witness ==
    /\ TitleReturned /\ tokenizer.state = "Nok"
    /\ DataEnters(tokenizer.events) # {}
    /\ Len(input) >= 2 /\ input[Len(input)] = "\n"
    /\ input[Len(input) - 1] = "\n"

\* likewise the heading: it has returned Nok after six '#' and a seventh
HeadingReturnedAfterSeven ==
    /\ HeadingReturned /\ tokenizer.state = "Nok"
    /\ tokenizer.point = tokenizer.attempts[1].point
            + HEADING_ATX_OPENING_FENCE_SIZE_MAX

\* the number of units of `units` from offset `from` on that are in `set`,
\* up to the first that is not
RECURSIVE RunLength(_, _, _)
RunLength(units, from, set) ==
    IF from < Len(units) /\ units[from + 1] \in set
    THEN 1 + RunLength(units, from + 1, set)
    ELSE 0

\* the most whitespace the heading takes as its indent
IndentMax == IF constructs.code_indented THEN TAB_SIZE - 1 ELSE UsizeMax

\* the offset after the indent of the line at `start`
AfterIndent(units, start) ==
    LET run == RunLength(units, start, Whitespace)
    IN  start + (IF run < IndentMax THEN run ELSE IndentMax)

\* the run of '#' after the indent of the line at `start`
OpeningRun(units, start) == RunLength(units, AfterIndent(units, start), {"#"})

\* the line at `start` opens a heading: 1 to 6 '#' and then whitespace, a
\* line ending or the end
Opens(units, start) ==
    LET run == OpeningRun(units, start)
        after == AfterIndent(units, start) + run
    IN  /\ run \in 1..HEADING_ATX_OPENING_FENCE_SIZE_MAX
        /\ IF after < Len(units)
           THEN units[after + 1] \in Whitespace \cup {"\n"}
           ELSE eof

\* the heading, attempted by flow, is past its opening sequence
PastOpening ==
    /\ phase = "tokenize" /\ tokenizer.attempts # <<>>
    /\ tokenizer.attempts[1].nok = "FlowBeforeHeadingSetext"
    /\ \/ Len(tokenizer.attempts) = 1 /\ tokenizer.state \in
            {"HeadingAtxAtBreak", "HeadingAtxSequenceFurther",
             "HeadingAtxData", "Ok"}
       \/ Len(tokenizer.attempts) = 2
            /\ \E k \in (tokenizer.attempts[1].events_len + 1)
                        ..tokenizer.attempts[2].events_len :
                    /\ tokenizer.events[k].event_type = "Exit"
                    /\ tokenizer.events[k].token_type = "HeadingAtxSequence"
            /\ tokenizer.attempts[2].point >
                    AfterIndent(input, tokenizer.attempts[1].point)
                        + OpeningRun(input, tokenizer.attempts[1].point)

\* the first HeadingAtxSequence span pushed since flow attempted the heading
\* covers the run of '#' of the line
OpeningSpanCoversRun ==
    LET start == tokenizer.attempts[1].point
        from  == tokenizer.attempts[1].events_len
        seqs  == {k \in (from + 1)..Len(tokenizer.events) :
                    tokenizer.events[k].token_type = "HeadingAtxSequence"}
        first == CHOOSE k \in seqs : \A other \in seqs : k <= other
    IN  /\ seqs # {} /\ first < Len(tokenizer.events)
        /\ tokenizer.events[first].event_type = "Enter"
        /\ tokenizer.events[first].point = AfterIndent(input, start)
        /\ tokenizer.events[first + 1].event_type = "Exit"
        /\ tokenizer.events[first + 1].token_type = "HeadingAtxSequence"
        /\ tokenizer.events[first + 1].point =
                AfterIndent(input, start) + OpeningRun(input, start)

\* C19: the enabled heading gets past its opening sequence only on a line
\* that, after the indent, has 1 to 6 '#' followed by a space, a tab, a line
\* ending or the end; on any other line, one of 7 or more '#' or of '#' and
\* then another unit included, it returns Nok; when it is past the opening,
\* the first HeadingAtxSequence span covers exactly the run of '#'.
C19_OpeningRule ==
    /\ PastOpening =>
            Opens(input, tokenizer.attempts[1].point) /\ OpeningSpanCoversRun
    /\ HeadingReturned /\ constructs.heading_atx =>
            (tokenizer.state = "Ok"
                <=> Opens(input, tokenizer.attempts[1].point))

\* a heading of an indent with a tab and six '#', returned Ok
C19_Witness ==
    /\ HeadingReturned /\ tokenizer.state = "Ok"
    /\ "\t" \in {input[k] : k \in
            1..AfterIndent(input, tokenizer.attempts[1].point)}
    /\ OpeningRun(input, tokenizer.attempts[1].point)
            = HEADING_ATX_OPENING_FENCE_SIZE_MAX

\* a heading whose run of '#' is followed by a tab, past its opening
OpenedByTab ==
    /\ PastOpening /\ tokenizer.state = "HeadingAtxData"
    /\ input[AfterIndent(input, tokenizer.attempts[1].point)
            + OpeningRun(input, tokenizer.attempts[1].point) + 1] = "\t"

\* a heading that returned Nok at a unit that follows the run directly
HeadingReturnedAfterOther ==
    /\ HeadingReturned /\ tokenizer.state = "Nok"
    /\ OpeningRun(input, tokenizer.attempts[1].point) \in 1..3

\* the events pushed since flow attempted the construct it is attempting
SinceAttempt ==
    SubSeq(tokenizer.events, tokenizer.attempts[1].events_len + 1,
           Len(tokenizer.events))

\* the last construct flow attempted on this line was the heading, and it
\* returned Ok
AfterHeading ==
    /\ history.tried # <<>>
    /\ history.tried[Len(history.tried)].construct = "HeadingAtxStart"
    /\ history.tried[Len(history.tried)].outcome = "Ok"

\* flow is at its `after` state, after a heading
FlowAfterHeading ==
    phase = "tokenize" /\ tokenizer.state = "FlowAfter" /\ AfterHeading

\* what `after` may do: nothing at the end, and at a line ending one
\* LineEnding span of the one unit it consumes
AfterStep ==
    IF CurrentUnit = Eof
    THEN /\ tokenizer'.state = "Ok"
         /\ tokenizer'.events = tokenizer.events
         /\ tokenizer'.point = tokenizer.point
    ELSE LET n == Len(tokenizer.events)
         IN  /\ tokenizer'.state = "FlowStart"
             /\ Len(tokenizer'.events) = n + 2
             /\ SubSeq(tokenizer'.events, 1, n) = tokenizer.events
             /\ tokenizer'.events[n + 1].event_type = "Enter"
             /\ tokenizer'.events[n + 1].token_type = "LineEnding"
             /\ tokenizer'.events[n + 1].point = tokenizer.point
             /\ tokenizer'.events[n + 2].event_type = "Exit"
             /\ tokenizer'.events[n + 2].token_type = "LineEnding"
             /\ tokenizer'.events[n + 2].point = tokenizer.point + 1
             /\ tokenizer'.point = tokenizer.point + 1

\* C20: the heading returns Ok only at a line ending or at the end, with the
\* spans it entered all exited, HeadingAtx the last, its resolver registered
\* and the interrupt flag false; so the `after` state of flow that follows a
\* heading is at a line ending or at the end, does not panic, and pushes
\* nothing at the end and otherwise one LineEnding span of the one unit it
\* consumes.
C20_OkAtLineEnd ==
    /\ [](HeadingReturned /\ tokenizer.state = "Ok" =>
            /\ CurrentKnown /\ CurrentUnit \in {Eof, "\n"}
            /\ tokenizer.current = CurrentUnit
            /\ Balanced(SinceAttempt)
            /\ SinceAttempt[1].event_type = "Enter"
            /\ SinceAttempt[1].token_type = "HeadingAtx"
            /\ SinceAttempt[Len(SinceAttempt)].event_type = "Exit"
            /\ SinceAttempt[Len(SinceAttempt)].token_type = "HeadingAtx"
            /\ \E i \in 1..Len(tokenizer.resolver_ids) :
                    tokenizer.resolver_ids[i] = "heading_atx"
            /\ ~tokenizer.interrupt)
    /\ [](FlowAfterHeading =>
            CurrentKnown /\ CurrentUnit \in {Eof, "\n"} /\ ~Panicked)
    /\ [][FlowAfterHeading /\ tokenizer' # tokenizer =>
            AfterStep /\ ~Panicked']_vars

\* a heading on the line after a paragraph returned Ok at a line ending, and
\* `after` has pushed the LineEnding span of that line ending
C20_Witness ==
    /\ phase = "tokenize" /\ tokenizer.state = "FlowStart" /\ AfterHeading
    /\ Has(tokenizer.events, "Exit", "Paragraph")
    /\ tokenizer.events[Len(tokenizer.events)].token_type = "LineEnding"
    /\ tokenizer.events[Len(tokenizer.events)].point = tokenizer.point
    /\ input[tokenizer.point] = "\n"
    /\ ~tokenizer.interrupt

\* a heading has returned Ok at the end of the input
HeadingReturnedAtEnd ==
    HeadingReturned /\ tokenizer.state = "Ok" /\ CurrentUnit = Eof

----------------------------------------------------------------------------
(* Properties of the markers of a title *)

\* the marker that closes a title opened by `opener`
CloserOf(opener) == IF opener = "(" THEN ")" ELSE opener

\* the input starts with a marker that opens a title
Opened == input # <<>> /\ input[1] \in TitleOpeners

\* the input is known not to start with such a marker
NotOpened == IF input = <<>> THEN eof ELSE input[1] \notin TitleOpeners

\* the token types of `events`, in order
TokenTypes(events) == [k \in 1..Len(events) |-> events[k].token_type]

\* the unit at offset `k` lies in a Data span of `events`
InData(events, k) ==
    \E i \in DataEnters(events) :
        /\ i < Len(events)
        /\ events[i + 1].event_type = "Exit"
        /\ events[i + 1].token_type = "Data"
        /\ events[i].point <= k /\ k < events[i + 1].point

\* the unit at offset `k` lies in a Data span of `events`, or in the Data
\* span that is open at the end of `events`
InOpenData(k) ==
    \/ InData(tokenizer.events, k)
    \/ /\ tokenizer.events # <<>>
       /\ tokenizer.events[Len(tokenizer.events)].event_type = "Enter"
       /\ tokenizer.events[Len(tokenizer.events)].token_type = "Data"
       /\ tokenizer.events[Len(tokenizer.events)].point <= k

\* a blank line starts at the line ending at offset `at`: only whitespace
\* up to the next line ending or the end
BlankLineAt(units, at) ==
    LET after == at + 1 + RunLength(units, at + 1, Whitespace)
    IN  /\ at < Len(units) /\ units[at + 1] = "\n"
        /\ IF after < Len(units) THEN units[after + 1] = "\n" ELSE eof

\* the offset of the line ending, or of the end, after the whitespace that
\* follows the line ending at offset `at`
BlankLineEnd(units, at) == at + 1 + RunLength(units, at + 1, Whitespace)

\* the title is under way, in none of the attempts it makes
InTitle ==
    /\ phase = "tokenize" /\ Len(tokenizer.attempts) = 1
    /\ tokenizer.state \in {"TitleBegin", "TitleInside", "TitleEscape",
                            "TitleAfterEol", "TitleAtBlankLine"}

\* what holds of the markers in every state of a title
MarkersMatch ==
    /\ NotOpened =>
            /\ tokenizer.events = <<>> /\ tokenizer.point = 0
            /\ tokenizer.state \in
                    {"DefinitionTitleBeforeMarker", "TitleStart", "Nok"}
    /\ TitleReturned /\ tokenizer.state = "Ok" =>
            LET n == Len(tokenizer.events)
                p == tokenizer.point
            IN  /\ Opened /\ p >= 2 /\ p = Len(input)
                /\ input[p] = CloserOf(input[1])
                /\ tokenizer.events[1].token_type = "DefinitionTitle"
                /\ tokenizer.events[1].event_type = "Enter"
                /\ tokenizer.events[n].token_type = "DefinitionTitle"
                /\ tokenizer.events[n].event_type = "Exit"
                /\ tokenizer.events[n - 1].token_type = "DefinitionTitleMarker"
                /\ tokenizer.events[n - 1].event_type = "Exit"
                /\ tokenizer.events[n - 1].point = p
                /\ tokenizer.events[n - 2].token_type = "DefinitionTitleMarker"
                /\ tokenizer.events[n - 2].event_type = "Enter"
                /\ tokenizer.events[n - 2].point = p - 1
                /\ \A k \in 1..(p - 2) :
                        input[k + 1] \in
                            (TitleOpeners \cup TitleClosers)
                                \ {CloserOf(input[1])}
                        => InData(tokenizer.events, k)
                /\ p = 2 <=>
                        TokenTypes(tokenizer.events) =
                            <<"DefinitionTitle", "DefinitionTitleMarker",
                              "DefinitionTitleMarker", "DefinitionTitleMarker",
                              "DefinitionTitleMarker", "DefinitionTitle">>
                /\ p = 2 <=>
                        ~\E k \in 1..n : tokenizer.events[k].token_type
                            \in {"DefinitionTitleString", "Data"}
    /\ TitleReturned /\ tokenizer.state = "Nok" /\ Opened =>
            /\ CurrentKnown
            /\ CurrentUnit = Eof \/ BlankLineAt(input, tokenizer.point)
    /\ phase = "tokenize" =>
            \A at \in 0..(tokenizer.point - 1) :
                BlankLineAt(input, at) =>
                    BlankLineEnd(input, at) >= tokenizer.point


\* C21: the title starts only at a double quote, a single quote or an
\* opening parenthesis, and otherwise returns Nok with no event pushed and
\* nothing consumed; it returns Ok only right after the marker span of the
\* closing marker that matches the opener; every other marker within the
\* title is in a Data span; a title of the two markers alone is Ok with the
\* two marker spans and no string or data span; and the title returns Nok
\* at the end of the input and at a blank line, and only there once started.
C21_MarkersMatch ==
    /\ []MarkersMatch
    /\ [][InTitle /\ CurrentKnown /\ CurrentUnit = Eof
                /\ tokenizer' # tokenizer =>
            tokenizer'.state = "Nok" /\ Len(tokenizer'.attempts) = 1]_vars

\* a title in double quotes with a single quote and a closing parenthesis
\* in it has returned Ok
C21_Witness ==
    /\ TitleReturned /\ tokenizer.state = "Ok"
    /\ input[1] = "\""
    /\ \E k, l \in 2..(Len(input) - 1) : input[k] = "'" /\ input[l] = ")"

\* the title of the two markers alone has returned Ok
EmptyTitle ==
    TitleReturned /\ tokenizer.state = "Ok" /\ input = <<"'", "'">>

\* a title in parentheses with an opening parenthesis in it has returned Ok
NestedParenthesis ==
    /\ TitleReturned /\ tokenizer.state = "Ok"
    /\ input = <<"(", "a", "(", ")">>

\* a title has returned Nok at the end of the input
TitleNokAtEnd ==
    /\ TitleReturned /\ tokenizer.state = "Nok" /\ Opened
    /\ CurrentUnit = Eof /\ Len(input) >= 3

\* a title has returned Nok at a blank line of whitespace
TitleNokAtBlankLine ==
    /\ TitleReturned /\ tokenizer.state = "Nok" /\ Opened
    /\ BlankLineAt(input, tokenizer.point)
    /\ BlankLineEnd(input, tokenizer.point) > tokenizer.point + 1

\* a title has returned Nok at something that opens no title
TitleNokAtStart ==
    TitleReturned /\ tokenizer.state = "Nok" /\ input = <<")">>

----------------------------------------------------------------------------
(* Properties of the escapes of a title *)

\* the number of backslashes in a row that end right before offset `k`
RECURSIVE BackslashesBefore(_, _)
BackslashesBefore(units, k) ==
    IF k > 0 /\ units[k] = "\\"
    THEN 1 + BackslashesBefore(units, k - 1)
    ELSE 0

\* the offsets, after the opening marker, of the consumed units that are
\* the closing marker of the title
ClosersConsumed ==
    {k \in 1..(tokenizer.point - 1) : input[k + 1] = CloserOf(input[1])}

\* the title closed at the unit at offset `k`: it returned Ok right after it
ClosedAt(k) == tokenizer.state = "Ok" /\ tokenizer.point = k + 1

\* C22: a closing marker is consumed as Data, not closing the title,
\* exactly when an odd number of backslashes in a row precede it; after an
\* even number, as in quote, a, backslash, backslash, quote, it closes the
\* title with Ok.
C22_OddBackslashesEscape ==
    phase = "tokenize" /\ Opened /\ tokenizer.state # "TitleBegin" =>
        \A k \in ClosersConsumed :
            IF BackslashesBefore(input, k) % 2 = 1
            THEN ~ClosedAt(k) /\ InOpenData(k)
            ELSE ClosedAt(k)

\* what the title does: a closing marker is consumed as Data exactly when a
\* backslash precedes it, whatever the number of backslashes before that
EscapedByAnyBackslash ==
    phase = "tokenize" /\ Opened /\ tokenizer.state # "TitleBegin" =>
        \A k \in ClosersConsumed :
            IF BackslashesBefore(input, k) >= 1
            THEN ~ClosedAt(k) /\ InOpenData(k)
            ELSE ClosedAt(k)

\* the title of quote, a, backslash, backslash, quote has returned Nok at
\* the end of the input, the last quote consumed as Data
C22_Witness ==
    /\ TitleReturned /\ tokenizer.state = "Nok"
    /\ input = <<"\"", "a", "\\", "\\", "\"">>
    /\ tokenizer.point = Len(input)
    /\ InData(tokenizer.events, Len(input) - 1)

\* a title with a closing marker after one backslash has returned Ok at the
\* closing marker after it
OddBackslashOk ==
    /\ TitleReturned /\ tokenizer.state = "Ok"
    /\ input = <<"(", "\\", ")", ")">>

----------------------------------------------------------------------------
(* consume against the sequential splice *)

\* the number of events the entries of `map` anchored at or before `i`
\* insert, and the number they remove
RECURSIVE InsertedUpTo(_, _)
InsertedUpTo(map, i) ==
    IF map = <<>> THEN 0
    ELSE (IF Head(map).at <= i THEN Len(Head(map).add) ELSE 0)
            + InsertedUpTo(Tail(map), i)

RECURSIVE RemovedUpTo(_, _)
RemovedUpTo(map, i) ==
    IF map = <<>> THEN 0
    ELSE (IF Head(map).at <= i THEN Head(map).remove ELSE 0)
            + RemovedUpTo(Tail(map), i)

\* the index the link index `i` is to become
Moved(map, i) == i + InsertedUpTo(map, i) - RemovedUpTo(map, i)

MovedOption(map, o, wrapping) ==
    IF o = None THEN None
    ELSE Some(IF wrapping THEN WrapUsize(Moved(map, Unwrap(o)))
              ELSE Moved(map, Unwrap(o)))

\* the kept events `events`, their link indices moved
Relinked(map, events, wrapping) ==
    [k \in 1..Len(events) |->
        IF IsSome(events[k].link)
        THEN [events[k] EXCEPT !.link =
                Some([Unwrap(events[k].link) EXCEPT
                        !.previous = MovedOption(map, @, wrapping),
                        !.next = MovedOption(map, @, wrapping)])]
        ELSE events[k]]

\* the entry of `map` with n - 1 entries anchored before it
NthByAnchor(map, n) ==
    map[CHOOSE k \in 1..Len(map) :
            Cardinality({j \in 1..Len(map) : map[j].at < map[k].at}) = n - 1]

\* the splice, entry by entry from the lowest anchor: the events up to the
\* anchor, the entry's events, and on from behind what the entry removes
RECURSIVE SplicedFrom(_, _, _, _, _)
SplicedFrom(map, n, events, from, wrapping) ==
    IF n > Len(map)
    THEN Relinked(map, SubSeq(events, from + 1, Len(events)), wrapping)
    ELSE LET entry == NthByAnchor(map, n)
         IN  Relinked(map, SubSeq(events, from + 1, entry.at), wrapping)
                \o entry.add
                \o SplicedFrom(map, n + 1, events, entry.at + entry.remove,
                               wrapping)

Spliced(map, events, wrapping) == SplicedFrom(map, 1, events, 0, wrapping)

\* a kept event of `events` has a link index that would move below 0
MovesBelowZero(map, events) ==
    \E i \in 0..(Len(events) - 1) :
        /\ HasLink(events, i) /\ ~Removed(map, i)
        /\ \E o \in {LinkOf(events, i).previous, LinkOf(events, i).next} :
                IsSome(o) /\ Moved(map, Unwrap(o)) < 0

\* the entries of `map`, each event they insert carrying a link
WithLinks(map) ==
    [k \in 1..Len(map) |->
        [map[k] EXCEPT !.add =
            [j \in 1..Len(@) |->
                [@[j] EXCEPT !.link = Some(Link(Some(0), Some(1), "String"))]]]]

\* the edit maps to compare on: the one queued, and the same with links
\* on the events it inserts
Batches == {tokenizer.map, [tokenizer.map EXCEPT !.map = WithLinks(@)]}

\* the log and the outcome of consume are those of the splice
AsSpliced(result, map, events) ==
    /\ result.edit_map.panic = ""
    /\ result.events = Spliced(map, events, FALSE)
    /\ Len(result.events) =
            Len(events) + InsertedUpTo(map, Len(events))
                - RemovedUpTo(map, Len(events))

\* C23 as stated: for queued edits with distinct anchors, in range and not
\* overlapping, the log after consume is the sequential splice, its length
\* the old length plus the insertions minus the removals, every link index
\* i of a kept event moved to i plus the insertions minus the removals at
\* anchors up to i, and the links of inserted events as queued.
C23_SpliceReference ==
    (Unconsumed /\ Regular(tokenizer.map.map, Len(tokenizer.events))) =>
        \A batch \in Batches, overflow_checks \in BOOLEAN :
            AsSpliced(EditMap_consume(batch, tokenizer.events, overflow_checks),
                      batch.map, tokenizer.events)

\* the step is the first call of consume, on edits in range and not
\* overlapping
ConsumeStep ==
    /\ Unconsumed /\ Regular(tokenizer.map.map, Len(tokenizer.events))
    /\ history'.consume_runs = 1

\* C23, amended: the same, as long as no link index of a kept event moves
\* below 0; when one does (it points at a removed event), consume panics at
\* the subtraction in a build with overflow checks and in a build without
\* gives the splice with that index wrapped.
C23_SpliceUnlessBelowZero ==
    /\ []((Unconsumed /\ Regular(tokenizer.map.map, Len(tokenizer.events))) =>
            \A batch \in Batches, overflow_checks \in BOOLEAN :
                LET result == EditMap_consume(batch, tokenizer.events,
                                              overflow_checks)
                IN  IF ~MovesBelowZero(batch.map, tokenizer.events)
                    THEN AsSpliced(result, batch.map, tokenizer.events)
                    ELSE IF overflow_checks
                    THEN result.edit_map.panic
                            = "attempt to subtract with overflow"
                    ELSE /\ result.edit_map.panic = ""
                         /\ result.events =
                                Spliced(batch.map, tokenizer.events, TRUE))
    /\ [][ConsumeStep =>
            IF ~MovesBelowZero(tokenizer.map.map, tokenizer.events)
            THEN /\ ~Panicked'
                 /\ tokenizer'.events =
                        Spliced(tokenizer.map.map, tokenizer.events, FALSE)
            ELSE \/ tokenizer'.map.panic = "attempt to subtract with overflow"
                 \/ /\ ~Panicked'
                    /\ tokenizer'.events =
                        Spliced(tokenizer.map.map, tokenizer.events, TRUE)]_vars

\* consume has applied two edits, one that inserted and one that removes,
\* to a log with a chain, no link index moving below 0, and a link index
\* has moved
C23_Witness ==
    /\ Consumed /\ ~MovesBelowZero(tokenizer.map.map, history.tokenized)
    /\ Len(tokenizer.map.map) = 2
    /\ \E k \in 1..2 : tokenizer.map.map[k].remove > 0
    /\ \E k \in 1..2 : tokenizer.map.map[k].remove = 0
    /\ Len(tokenizer.events) = Len(history.tokenized)
    /\ \E i \in 0..(Len(tokenizer.events) - 1) :
        /\ HasLink(tokenizer.events, i)
        /\ tokenizer.events[i + 1] \notin
                {history.tokenized[j] : j \in 1..Len(history.tokenized)}

\* consume has wrapped a link index that moved below 0
LinkWrapped ==
    /\ Consumed
    /\ \E i \in 0..(Len(tokenizer.events) - 1) :
        /\ HasLink(tokenizer.events, i)
        /\ \E o \in {LinkOf(tokenizer.events, i).previous,
                      LinkOf(tokenizer.events, i).next} :
                IsSome(o) /\ Unwrap(o) >= UsizeModulus - MaxCalls

====
